---- MODULE Spec2Model ----
(***************************************************************************)
(* Connection management of the Stingray/Hydra code-assist extension:      *)
(* the ConnectionHandler registry (src/src/connection-handler.ts), the     *)
(* StingrayConnection transport it owns and the Multicast event lists the  *)
(* transport exposes.  The JavaScript event loop is modelled as it runs:   *)
(* one macrotask (socket event, timer, command) at a time, each followed   *)
(* by the microtasks (promise continuations) it queued.                    *)
(***************************************************************************)
EXTENDS Integers, Sequences, FiniteSets, TLC

VARIABLES
    conn,        \* every StingrayConnection ever constructed, by identity (index)
    compiler,    \* ConnectionHandler._compiler: identity of the current compiler transport
    game,        \* ConnectionHandler._game: port -> identity of the stored transport
    status,      \* ConnectionHandler._compilerConnectionStatus
    statusLog,   \* every value assigned to the status, in order (each one is also fired)
    calls,       \* every connectToCompiler invocation: its position and locals
    micro,       \* promise continuations queued to run before the next macrotask
    last,        \* the registry call made by the last step, if it made one, and its result
    sup,         \* the module state of extension.ts and the position of the Supervisor subroutine
    procs,       \* every child process the Supervisor spawned, by identity (index)
    env,         \* what surrounds the program: the configured toolchain path, a foreign compiler
    identifyInfo, \* ConnectionHandler._identifyInfo: transport -> what identify cached for it
    identifies,  \* every identify invocation: its position and locals
    outputs,     \* the output channels (sinks) and the three maps that route to them
    frame,       \* the text frame a socket delivered last, and what was decoded from it
    tool         \* the module state of toolchain.ts, the setting and the disk it reads

vars == <<conn, compiler, game, status, statusLog, calls, micro, last, sup, procs, env,
          identifyInfo, identifies, outputs, frame, tool>>

----------------------------------------------------------------------------
(* Program constants *)

MAX_CONNECTIONS == 31
COMPILER_PORT == 14032
GAME_PORT == 14000
POLL_LIMIT == 20
DEFAULT_IP == "127.0.0.1"
REMOTE_IP == "10.0.0.2"

(* Bounds of the model *)

MaxTransports == 3      \* transports constructed in one run of Spec
MaxCalls == 1           \* connectToCompiler invocations in one run of Spec
MaxAttempts == 2        \* largest `attempts` argument drawn
MaxData == 2            \* frames received in one run of SpecTransport
MaxGameTransports == 60 \* transports constructed in one run of SpecGames
MaxFollowed == 2        \* transports whose socket SpecGames follows
MaxRuns == 2            \* invocations of the Supervisor in one run of SpecSupervisor
MaxTasks == 2           \* connectToCompiler calls of tasks in one run of SpecSupervisor
MaxIdentifies == 2      \* identify invocations in one run of SpecIdentify
MaxFrame == 4           \* bytes of a text frame before its padding, in SpecFrames
MaxPad == 3             \* NUL bytes that pad a text frame, in SpecFrames

Ips == {DEFAULT_IP, REMOTE_IP}

Min(a, b) == IF a < b THEN a ELSE b

----------------------------------------------------------------------------
(* Multicast: an ordered list of listeners *)

\* Multicast.add
add(ls, l) == Append(ls, l)

RECURSIVE indexOf(_, _, _)
indexOf(ls, l, i) ==
    IF i > Len(ls) THEN 0
    ELSE IF ls[i] = l THEN i
    ELSE indexOf(ls, l, i + 1)

\* Multicast.remove: the first registration of l, if any
remove(ls, l) ==
    LET i == indexOf(ls, l, 1)
    IN  IF i = 0 THEN ls
        ELSE SubSeq(ls, 1, i - 1) \o SubSeq(ls, i + 1, Len(ls))

contains(ls, l) == indexOf(ls, l, 1) # 0

Listener(k, c) == [k |-> k, c |-> c]

----------------------------------------------------------------------------
(* StingrayConnection *)

\* new StingrayConnection(port, ip): connecting begins at construction
StingrayConnection(port, ip, slot) ==
    [ port            |-> port,
      ip              |-> ip,
      slot            |-> slot,          \* which registry slot constructed it
      state           |-> "Connecting",
      destroyed       |-> FALSE,         \* close() was called on it
      connected       |-> FALSE,         \* the `connected` local captured by getGame's listeners
      received        |-> 0,             \* frames that arrived on its socket
      log             |-> <<>>,          \* what it fired and what was done with it, in order
      invoked         |-> <<>>,          \* the listeners its last connect or disconnect ran
      onDidConnect    |-> <<>>,
      onDidDisconnect |-> <<>>,
      onDidReceiveData |-> <<>> ]

isReady(s, t) == s.conn[t].state = "Ready"
isClosed(s, t) == s.conn[t].state = "Closed"

Event(e, n) == [e |-> e, n |-> n]

\* The heap the synchronous code of one step works on
Heap ==
    [ conn |-> conn, compiler |-> compiler, game |-> game, status |-> status,
      statusLog |-> statusLog, calls |-> calls, micro |-> micro,
      sup |-> sup, procs |-> procs,
      identifyInfo |-> identifyInfo, identifies |-> identifies,
      outputs |-> outputs, frame |-> frame,
      asked |-> <<>>,     \* the ports getGame was called with in this step
      hosts |-> <<>>,     \* the ip of each of these calls
      allGameConnections |-> <<>> ]   \* what getAllGames returned in this step

\* something observable happened to transport t
emit(s, t, e) == [s EXCEPT !.conn[t].log = Append(@, Event(e, 0))]

\* constructs a transport; its identity is Len(s.conn) + 1
construct(s, port, ip, slot) ==
    [s EXCEPT !.conn = Append(@, StingrayConnection(port, ip, slot))]

\* StingrayConnection.close(): idempotent; the socket's close event follows
close(s, t) == [s EXCEPT !.conn[t].destroyed = TRUE]

\* StingrayConnection.sendJSON
sendJSON(s, t, msg) == emit(s, t, msg)

----------------------------------------------------------------------------
(* ConnectionHandler *)

\* _updateCompilerConnectionStatus
updateCompilerConnectionStatus(s, newStatus) ==
    [s EXCEPT !.status = newStatus, !.statusLog = Append(@, newStatus)]


\* Map.set and Map.delete
set(map, key, value) == (key :> value) @@ map
delete(map, key) ==
    IF DOMAIN map \subseteq {key} THEN <<>>
    ELSE [k \in DOMAIN map \ {key} |-> map[k]]

\* the names of the sinks: "Stingray Compiler" and "Stingray (<port>)"
COMPILER_OUTPUT_NAME == <<"Stingray Compiler", 0>>
GameOutputName(port) == <<"Stingray", port>>

\* vscode.window.createOutputChannel(name)
OutputChannel(name) ==
    [name |-> name, separators |-> 0, lines |-> 0, callstacks |-> 0, shown |-> 0]

\* the sinks and the maps of a registry that has attached none
NoOutputs ==
    [ channels             |-> <<>>,    \* every sink created, by identity (index)
      outputsByName        |-> <<>>,    \* _outputsByName
      connectionOutputs    |-> <<>>,    \* _connectionOutputs
      outputsForConnection |-> <<>> ]   \* _outputsForConnection

\* mutant: the sink of a name is never found again
outputByName_Forgotten(o, name) == 0

\* this._outputsByName.get(name): 0 is undefined
outputByName(o, name) ==
    IF name \in DOMAIN o.outputsByName THEN o.outputsByName[name] ELSE 0

\* _addOutputChannel(name, connection, true)
\* mutant: _addOutputChannel without the test for the same connection
addOutputChannel_Again(s, name, t) ==
    LET o == s.outputs
        old == outputByName(o, name)
        ch == IF old # 0 THEN old ELSE Len(o.channels) + 1
        channels == IF old # 0
                    THEN [o.channels EXCEPT ![old].separators = @ + 1]
                    ELSE Append(o.channels, OutputChannel(name))
    IN  [s EXCEPT
            !.outputs = [ channels |-> [channels EXCEPT ![ch].shown = @ + 1],
                          outputsByName |-> set(o.outputsByName, name, ch),
                          connectionOutputs |-> set(o.connectionOutputs, t, ch),
                          outputsForConnection |-> set(o.outputsForConnection, ch, t) ],
            !.conn[t].onDidDisconnect = add(@, Listener("outputDisconnect", ch)),
            !.conn[t].onDidReceiveData = add(@, Listener("output", ch))]

addOutputChannel(s, name, t) ==
    LET o == s.outputs
        old == outputByName(o, name)
        oldConnection == IF old # 0 /\ old \in DOMAIN o.outputsForConnection
                         THEN o.outputsForConnection[old] ELSE 0
        ch == IF old # 0 THEN old ELSE Len(o.channels) + 1
        channels == IF old # 0
                    THEN [o.channels EXCEPT ![old].separators = @ + 1]
                    ELSE Append(o.channels, OutputChannel(name))
    IN  IF oldConnection = t THEN s
        ELSE [s EXCEPT
                 !.outputs = [ channels |-> [channels EXCEPT ![ch].shown = @ + 1],
                               outputsByName |-> set(o.outputsByName, name, ch),
                               connectionOutputs |-> set(o.connectionOutputs, t, ch),
                               outputsForConnection |-> set(o.outputsForConnection, ch, t) ],
                 !.conn[t].onDidDisconnect = add(@, Listener("outputDisconnect", ch)),
                 !.conn[t].onDidReceiveData = add(@, Listener("output", ch))]

\* the onDidDisconnect listener _addOutputChannel registered for sink ch
outputDisconnect(s, t, ch) ==
    [s EXCEPT !.outputs.connectionOutputs = delete(@, t),
              !.outputs.outputsForConnection = delete(@, ch),
              !.identifyInfo = delete(@, t)]

\* the compiler transport is usable: !this._compiler.isClosed && this._compiler.isReady
compilerReady(s) == ~isClosed(s, s.compiler) /\ isReady(s, s.compiler)

\* f(...) of an awaited promise: the continuation of call c is queued as a microtask
resolve(s, c) ==
    IF s.calls[c].pc # "resume"
    THEN [s EXCEPT !.calls[c].pc = "resume", !.micro = Append(@, c)]
    ELSE s

\* mutant: a one-shot listener removes only itself from the connect list
removeBoth_ConnectOnly(s, t, onConnect, onDisconnect) ==
    [s EXCEPT !.conn[t].onDidConnect = remove(@, onConnect)]

\* the two one-shot listeners of the constructor and of one connectToCompiler wait
removeBoth(s, t, onConnect, onDisconnect) ==
    [s EXCEPT !.conn[t].onDidConnect = remove(@, onConnect),
              !.conn[t].onDidDisconnect = remove(@, onDisconnect)]

\* the body of one listener, run for an event of transport t
\* mutant: the disconnect listener of getGame does not look at `connected`
wasConnected_Always(s, t) == TRUE

\* `if (connected)` in the disconnect listener of getGame
wasConnected(s, t) == s.conn[t].connected

\* mutant: the connect listener of getGame fires connections-changed before
\* it sends the continue command
onGameConnect_ChangedFirst(s, t) ==
    [sendJSON(emit(addOutputChannel(s, GameOutputName(s.conn[t].port), t),
                   t, "connectionsChanged"), t, "send continue")
        EXCEPT !.conn[t].connected = TRUE]

\* the connect listener of getGame: attach the sink, send the debugger's
\* continue command, fire onConnectionsChanged, set `connected`
onGameConnect(s, t) ==
    [emit(sendJSON(addOutputChannel(s, GameOutputName(s.conn[t].port), t),
                   t, "send continue"), t, "connectionsChanged")
        EXCEPT !.conn[t].connected = TRUE]

invoke(s, t, l) ==
    CASE l.k = "ctorConnect" ->
            updateCompilerConnectionStatus(
                removeBoth(s, t, Listener("ctorConnect", 0), Listener("ctorDisconnect", 0)),
                "Connected")
      [] l.k = "ctorDisconnect" ->
            updateCompilerConnectionStatus(
                removeBoth(s, t, Listener("ctorConnect", 0), Listener("ctorDisconnect", 0)),
                "Disconnected")
      [] l.k = "waitConnect" \/ l.k = "waitDisconnect" ->
            [resolve(
                removeBoth(s, t, Listener("waitConnect", l.c), Listener("waitDisconnect", l.c)),
                l.c) EXCEPT !.calls[l.c].settled = @ + 1]
      [] l.k = "statusDisconnect" ->
            updateCompilerConnectionStatus(s, "Disconnected")
      [] l.k = "gameConnect" -> onGameConnect(s, t)
      [] l.k = "gameDisconnect" ->
            IF wasConnected(s, t) THEN emit(s, t, "connectionsChanged") ELSE s
      [] l.k = "outputDisconnect" -> outputDisconnect(s, t, l.c)
      [] l.k = "resolver" ->
            [removeBoth(s, t, Listener("resolver", 0), Listener("resolver", 0)) EXCEPT
                !.sup.pc = IF s.sup.pc = "attachWait" THEN "attached" ELSE "polled",
                !.sup.settled = @ + 1,
                !.micro = Append(@, 0 - 1)]
      [] OTHER -> s

\* Multicast.fire: every listener of the list as it was when fire began, in
\* order, unless it was removed in the meantime
\* mutant: fire walks the list itself by position
RECURSIVE fireFrom_Live(_, _, _, _, _)
fireFrom_Live(s, t, ev, snapshot, i) ==
    LET now == IF ev = "connect" THEN s.conn[t].onDidConnect
               ELSE s.conn[t].onDidDisconnect
    IN  IF i > Len(now) THEN s
        ELSE fireFrom_Live([invoke(s, t, now[i]) EXCEPT !.conn[t].invoked = Append(@, now[i])],
                           t, ev, snapshot, i + 1)

RECURSIVE fireFrom(_, _, _, _, _)
fireFrom(s, t, ev, snapshot, i) ==
    IF i > Len(snapshot) THEN s
    ELSE LET l == snapshot[i]
             now == IF ev = "connect" THEN s.conn[t].onDidConnect
                    ELSE s.conn[t].onDidDisconnect
         IN  fireFrom(IF contains(now, l)
                      THEN [invoke(s, t, l) EXCEPT !.conn[t].invoked = Append(@, l)]
                      ELSE s,
                      t, ev, snapshot, i + 1)

fire(s, t, ev) ==
    fireFrom([s EXCEPT !.conn[t].invoked = <<>>], t, ev,
             IF ev = "connect" THEN s.conn[t].onDidConnect ELSE s.conn[t].onDidDisconnect,
             1)

\* mutant: the constructor leaves the status at the enum's first value
constructorStatus_Disconnected == "Disconnected"

\* the status the constructor assigns and fires
constructorStatus == "Connecting"

\* new ConnectionHandler
constructor ==
    LET c == [StingrayConnection(COMPILER_PORT, DEFAULT_IP, "compiler") EXCEPT
                 !.onDidConnect = <<Listener("ctorConnect", 0)>>,
                 !.onDidDisconnect = <<Listener("ctorDisconnect", 0)>>]
    IN  [ conn |-> <<c>>, compiler |-> 1, game |-> <<>>,
          status |-> constructorStatus, statusLog |-> <<constructorStatus>>,
          calls |-> <<>>, micro |-> <<>>, asked |-> <<>> ]

\* mutant: getGame constructs a transport on every call
mustCreate_Always(s, port) == TRUE

\* mutant: getGame constructs a transport only for a port it has never seen
mustCreate_OnlyMissing(s, port) == port \notin DOMAIN s.game

\* does getGame construct a transport for this port?
mustCreate(s, port) == port \notin DOMAIN s.game \/ isClosed(s, s.game[port])

\* mutant: getGame attaches the sink to the transport it constructs
getGame_Eager(s, port, ip) ==
    IF mustCreate(s, port)
    THEN LET t == Len(s.conn) + 1
             g == [StingrayConnection(port, ip, "game") EXCEPT
                      !.onDidConnect = <<Listener("gameConnect", 0)>>,
                      !.onDidDisconnect = <<Listener("gameDisconnect", 0)>>]
         IN  addOutputChannel([s EXCEPT !.conn = Append(@, g),
                                        !.game = (port :> t) @@ @,
                                        !.asked = Append(@, port), !.hosts = Append(@, ip)],
                              GameOutputName(port), t)
    ELSE [s EXCEPT !.asked = Append(@, port), !.hosts = Append(@, ip)]

\* getGame(port, ip): the heap afterwards; the transport returned is s.game[port]
getGame(s, port, ip) ==
    IF mustCreate(s, port)
    THEN LET t == Len(s.conn) + 1
             g == [StingrayConnection(port, ip, "game") EXCEPT
                      !.onDidConnect = <<Listener("gameConnect", 0)>>,
                      !.onDidDisconnect = <<Listener("gameDisconnect", 0)>>]
         IN  [s EXCEPT !.conn = Append(@, g),
                       !.game = (port :> t) @@ @,
                       !.asked = Append(@, port), !.hosts = Append(@, ip)]
    ELSE [s EXCEPT !.asked = Append(@, port), !.hosts = Append(@, ip)]

\* mutant: getAllGames without the test of isReady
pushes_All(s, t) == TRUE

\* `if (game.isReady)` of getAllGames
pushes(s, t) == isReady(s, t)

\* the loop of getAllGames over the entries of _game, which a Map keeps in the
\* order in which their ports were first set: entry by entry, from the
\* transport that was the first of its port
RECURSIVE allGamesFrom(_, _, _)
allGamesFrom(s, t, found) ==
    IF t > Len(s.conn) THEN found
    ELSE LET port == s.conn[t].port
             first == s.conn[t].slot = "game" /\
                      \A u \in 1..(t - 1) :
                          ~(s.conn[u].slot = "game" /\ s.conn[u].port = port)
         IN  allGamesFrom(s, t + 1,
                 IF first /\ port \in DOMAIN s.game /\ pushes(s, s.game[port])
                 THEN Append(found, s.game[port]) ELSE found)

\* getAllGames()
getAllGames(s) == [s EXCEPT !.allGameConnections = allGamesFrom(s, 1, <<>>)]

\* mutant: connectAllGames without the ceiling
clamp_None(range) == range

\* the clamp of connectAllGames
clamp(range) == Min(range, MAX_CONNECTIONS)

\* the passes i = from .. to - 1 of the loop of connectAllGames, in order
\* (halved, and the first half evaluated before the second is entered, to keep
\* the evaluation shallow)
RECURSIVE connectFrom(_, _, _, _, _)
connectFrom(s, portStart, ip, from, to) ==
    IF from >= to THEN s
    ELSE IF from + 1 = to THEN getGame(s, portStart + from, ip)
    ELSE LET s1 == connectFrom(s, portStart, ip, from, (from + to) \div 2)
         IN  IF Len(s1.asked) >= 0
             THEN connectFrom(s1, portStart, ip, (from + to) \div 2, to)
             ELSE s1

\* connectAllGames(portStart, range, ip)
connectAllGames(s, portStart, range, ip) ==
    connectFrom(s, portStart, ip, 0, clamp(range))

RECURSIVE closeEach(_, _)
closeEach(s, ports) ==
    IF ports = {} THEN s
    ELSE LET p == CHOOSE x \in ports : \A y \in ports : x <= y
         IN  closeEach(close(s, s.game[p]), ports \ {p})

\* closeAll()
closeAll(s) == closeEach(close(s, s.compiler), DOMAIN s.game)


----------------------------------------------------------------------------
(* connectToCompiler(attempts, delay_between_attempts) *)

Call(attempts, from) ==
    [ pc |-> "run", i |-> 0, attempts |-> attempts, t |-> 0,
      from |-> from,      \* how many statuses had been published when it was called
      connecting |-> 0,   \* how often this call set the status to Connecting
      waits |-> 0,        \* how many promises of the loop this call awaited
      sleeps |-> 0,       \* how many backoff sleeps this call began
      settled |-> 0,      \* how often a listener of the wait it is in called f
      ret |-> 0 ]

\* mutant: the executor replaces the compiler transport whenever it is not ready
executor_AlwaysNew(s, c) ==
    IF compilerReady(s)
    THEN resolve(s, c)
    ELSE LET s1 == [construct(s, COMPILER_PORT, DEFAULT_IP, "compiler")
                       EXCEPT !.compiler = Len(s.conn) + 1]
             newCompiler == s1.compiler
         IN  [s1 EXCEPT
                !.conn[newCompiler].onDidConnect = add(@, Listener("waitConnect", c)),
                !.conn[newCompiler].onDidDisconnect = add(@, Listener("waitDisconnect", c)),
                !.calls[c].pc = "wait", !.calls[c].settled = 0,
                !.calls[c].t = newCompiler]

\* the executor of the awaited promise: resolve at once on a ready compiler,
\* otherwise wait on the current transport, replaced first if it is closed
executor(s, c) ==
    IF compilerReady(s)
    THEN resolve(s, c)
    ELSE LET s1 == IF isClosed(s, s.compiler)
                   THEN [construct(s, COMPILER_PORT, DEFAULT_IP, "compiler")
                            EXCEPT !.compiler = Len(s.conn) + 1]
                   ELSE s
             newCompiler == s1.compiler
         IN  [s1 EXCEPT
                !.conn[newCompiler].onDidConnect = add(@, Listener("waitConnect", c)),
                !.conn[newCompiler].onDidDisconnect = add(@, Listener("waitDisconnect", c)),
                !.calls[c].pc = "wait", !.calls[c].settled = 0,
                !.calls[c].t = newCompiler]

\* mutant: the loop body does not publish Connecting
setConnecting_Skipped(s, c) == s

\* the first statement of the loop body
setConnecting(s, c) ==
    [updateCompilerConnectionStatus(s, "Connecting") EXCEPT !.calls[c].connecting = @ + 1]

\* one pass of the loop body up to its await
iteration(s, c) ==
    LET s1 == setConnecting(s, c)
    IN  executor([s1 EXCEPT !.calls[c].waits = @ + 1], c)

\* mutant: a call that gave up publishes nothing
finish_Silent(s, c) ==
    LET s1 == IF compilerReady(s)
              THEN [updateCompilerConnectionStatus(
                        addOutputChannel(s, COMPILER_OUTPUT_NAME, s.compiler), "Connected") EXCEPT
                       !.conn[s.compiler].onDidDisconnect =
                           add(@, Listener("statusDisconnect", 0))]
              ELSE s
    IN  [s1 EXCEPT !.calls[c].pc = "done", !.calls[c].ret = s1.compiler]

\* after the loop: publish the outcome and return the compiler transport
finish(s, c) ==
    LET s1 == IF compilerReady(s)
              THEN [updateCompilerConnectionStatus(
                        addOutputChannel(s, COMPILER_OUTPUT_NAME, s.compiler), "Connected") EXCEPT
                       !.conn[s.compiler].onDidDisconnect =
                           add(@, Listener("statusDisconnect", 0))]
              ELSE updateCompilerConnectionStatus(s, "Disconnected")
    IN  [s1 EXCEPT !.calls[c].pc = "done", !.calls[c].ret = s1.compiler]

\* the loop test `i < attempts`, then the body or the code after the loop
loop(s, c) ==
    IF s.calls[c].i < s.calls[c].attempts THEN iteration(s, c) ELSE finish(s, c)

\* the call itself: runs synchronously up to its first await
connectToCompiler(s, attempts) ==
    LET c == Len(s.calls) + 1
    IN  loop([s EXCEPT !.calls = Append(@, Call(attempts, Len(s.statusLog)))], c)

\* mutant: the backoff sleep follows every failed attempt, the last one too
afterWait_AlwaysSleeps(s, c) ==
    IF compilerReady(s) THEN finish(s, c)
    ELSE [s EXCEPT !.calls[c].pc = "sleep", !.calls[c].sleeps = @ + 1]

\* the continuation of the awaited wait
afterWait(s, c) ==
    IF compilerReady(s) THEN finish(s, c)
    ELSE IF s.calls[c].i + 1 # s.calls[c].attempts
         THEN [s EXCEPT !.calls[c].pc = "sleep", !.calls[c].sleeps = @ + 1]
         ELSE loop([s EXCEPT !.calls[c].pc = "run", !.calls[c].i = @ + 1], c)

\* the continuation of the backoff sleep
afterSleep(s, c) == loop([s EXCEPT !.calls[c].pc = "run", !.calls[c].i = @ + 1], c)

----------------------------------------------------------------------------
(* The Compiler Supervisor: keepCompilerRunning and what it calls *)

\* the configured toolchain path: not set, set to a directory without a
\* toolchain, set to a toolchain
Configs == {"unset", "invalid", "valid"}

\* exec(command): a running child process that does not listen yet
ChildProcess == [state |-> "starting", exitCode |-> "null", kills |-> 0]

\* the module variables of extension.ts once it is loaded, and no subroutine
module ==
    [ running   |-> FALSE,    \* _compilerPromiseRunning
      handle    |-> 0,        \* _compilerProcess: 0 is null
      closed    |-> FALSE,    \* closed
      toolchain |-> FALSE,    \* _activeToolchain is set
      runs      |-> 0,        \* subroutines started
      pc        |-> "none",   \* where the subroutine is suspended
      i         |-> 0,        \* the poll loop's counter
      t         |-> 0,        \* the transport compilerConnector handed out last
      adopted   |-> FALSE,    \* the subroutine attached to a compiler it found
      spawned   |-> 0,        \* processes this subroutine spawned
      polls     |-> 0,        \* compilerConnector calls of the poll loop
      cfg       |-> "unset",  \* the configuration when the toolchain was checked last
      outcome   |-> "none",   \* how this subroutine ended
      log       |-> {},       \* diagnostics this subroutine wrote
      teardowns |-> 0,        \* how often the finally handler ran for it
      escaped   |-> 0,        \* rejections nobody handles
      settled   |-> 0,        \* how often the resolver of its last wait ran
      keep      |-> "none" ]  \* where keepConnecting is suspended

\* extensionOutputChannel.appendLine
appendLine(s, line) == [s EXCEPT !.sup.log = @ \cup {line}]

\* killChildProcess(process): taskkill is issued; the process dies later
killChildProcess(s, p) == [s EXCEPT !.procs[p].kills = @ + 1]

\* taskkill has finished: the process is gone
killed(s, p) ==
    IF s.procs[p].state = "exited" THEN s
    ELSE [s EXCEPT !.procs[p].state = "exited", !.procs[p].exitCode = "1"]

\* getActiveToolchain(): the cached toolchain if there is one, else one
\* constructed from the configured path if that path holds a toolchain
getActiveToolchain(s) == s.sup.toolchain \/ env.config = "valid"

\* the handler of subroutine().finally
teardown(s) ==
    LET s1 == [s EXCEPT !.sup.running = FALSE, !.sup.pc = "done",
                        !.sup.teardowns = @ + 1]
    IN  IF s1.sup.handle # 0
        THEN [killChildProcess(s1, s1.sup.handle) EXCEPT !.sup.handle = 0]
        ELSE s1

\* `return` of the subroutine: its promise is fulfilled
return(s, outcome) == teardown([s EXCEPT !.sup.outcome = outcome])

\* an awaited operation threw: the promise of the subroutine is rejected, and
\* so is the promise finally() returned, which has no handler
raise(s) == [teardown([s EXCEPT !.sup.outcome = "raised"]) EXCEPT !.sup.escaped = @ + 1]

\* compilerConnector(): settled at once by a ready compiler transport,
\* otherwise by the next connect or disconnect of the transport the Registry
\* holds now
compilerConnector(s, waiting, settled) ==
    LET t == s.compiler
    IN  IF isReady(s, t)
        THEN [s EXCEPT !.sup.t = t, !.sup.pc = settled, !.micro = Append(@, 0 - 1)]
        ELSE [s EXCEPT !.sup.t = t, !.sup.pc = waiting, !.sup.settled = 0,
                       !.conn[t].onDidConnect = add(@, Listener("resolver", 0)),
                       !.conn[t].onDidDisconnect = add(@, Listener("resolver", 0))]

\* mutant: the loop returns without looking at the connection
loopUntilConnectionDrops_NoWait(s) ==
    IF s.sup.closed THEN return(s, "shutdown")
    ELSE return(appendLine(s, "lost connection"), "dropped")

\* loopUntilConnectionDrops(connection), from the loop test on
loopUntilConnectionDrops(s) ==
    IF s.sup.closed THEN return(s, "shutdown")
    ELSE IF isClosed(s, s.sup.t) THEN return(appendLine(s, "lost connection"), "dropped")
    ELSE [s EXCEPT !.sup.pc = "watch"]

\* the subroutine from CHECK TOOLCHAIN to its first await
checkToolchain(s0) ==
    LET s == [s0 EXCEPT !.sup.cfg = env.config]
    IN  IF ~getActiveToolchain(s)
        THEN return(appendLine(appendLine(s,
                        IF env.config = "unset" THEN "path not complete" ELSE "no toolchain found"),
                        "run reconnect"),
                    "no toolchain")
        ELSE compilerConnector([s EXCEPT !.sup.toolchain = TRUE], "attachWait", "attached")

\* keepCompilerRunning(): the flag is set and the subroutine runs to its first await
keepCompilerRunning(s) ==
    LET s1 == [s EXCEPT !.sup.running = TRUE, !.sup.runs = @ + 1, !.sup.pc = "start",
                        !.sup.i = 0, !.sup.t = 0, !.sup.adopted = FALSE,
                        !.sup.spawned = 0, !.sup.polls = 0,
                        !.sup.outcome = "none", !.sup.log = {}, !.sup.teardowns = 0]
    IN  IF s1.sup.handle # 0
        THEN [killChildProcess(s1, s1.sup.handle) EXCEPT !.sup.pc = "killFirst"]
        ELSE checkToolchain(s1)

\* mutant: the command does not look at the flag
reconnect_Unguarded(s) == keepCompilerRunning(s)

\* the Compiler.reconnect command: a message and nothing else while the flag
\* is set
reconnect(s) == IF s.sup.running THEN s ELSE keepCompilerRunning(s)

\* after `await compilerConnector()` of CHECK IF ANOTHER COMPILER IS RUNNING
afterAttach(s) ==
    IF isReady(s, s.sup.t)
    THEN loopUntilConnectionDrops(
             appendLine([s EXCEPT !.sup.adopted = TRUE], "compiler connected"))
    ELSE [s EXCEPT !.sup.pc = "secret"]

\* mutant: the spawn step does not keep the handle of the process
launched_HandleLost(s) ==
    [appendLine(s, "launching compiler") EXCEPT
        !.procs = Append(@, ChildProcess), !.sup.spawned = @ + 1]

\* toolchain.launch returned: exec() started the process and the handle is kept
launched(s) ==
    [appendLine(s, "launching compiler") EXCEPT
        !.procs = Append(@, ChildProcess),
        !.sup.handle = Len(s.procs) + 1,
        !.sup.spawned = @ + 1]

\* after the poll loop
afterPolls(s) ==
    IF s.sup.t = 0 \/ ~isReady(s, s.sup.t)
    THEN IF s.sup.handle # 0
         THEN [killChildProcess(s, s.sup.handle) EXCEPT !.sup.pc = "killFail"]
         ELSE return(appendLine(s, "failed to launch"), "failed")
    ELSE loopUntilConnectionDrops(appendLine(s, "compiler connected"))

\* the loop test `i < 20`, then the body up to its await or the code after the loop
poll(s) ==
    IF s.sup.i < POLL_LIMIT
    THEN compilerConnector([s EXCEPT !.sup.polls = @ + 1], "pollWait", "polled")
    ELSE afterPolls(s)

\* mutant: the exit test takes every child for a terminated one
exited_Always(code) == TRUE

\* `if (_compilerProcess.exitCode)`: neither null nor 0
exited(code) == code # "null" /\ code # "0"

\* after `await compilerConnector()` of the poll loop
afterPoll(s) ==
    IF isReady(s, s.sup.t) THEN afterPolls(s)
    ELSE IF exited(s.procs[s.sup.handle].exitCode)
         THEN afterPolls([appendLine(s, "exit code") EXCEPT !.sup.handle = 0])
         ELSE [appendLine(s, "still starting") EXCEPT !.sup.pc = "pollSleep"]

\* the continuation the awaited promise of the subroutine queued
resume(s) ==
    IF s.sup.pc = "attached" THEN afterAttach(s) ELSE afterPoll(s)

\* compilerConnector's own `return await`: it returns, and the subroutine's
\* continuation is queued
hop(s) == [s EXCEPT !.micro = Append(@, 0)]

\* an awaited operation of the operating system has finished, well or not
settle(s, ok) ==
    CASE s.sup.pc = "killFirst" ->
            checkToolchain([killed(s, s.sup.handle) EXCEPT !.sup.handle = 0])
      [] s.sup.pc = "secret" ->
            IF ok THEN [s EXCEPT !.sup.pc = "launch"] ELSE raise(s)
      [] s.sup.pc = "launch" ->
            IF ok THEN poll(launched(s)) ELSE raise(s)
      [] s.sup.pc = "killFail" ->
            return(appendLine([killed(s, s.sup.handle) EXCEPT !.sup.handle = 0],
                              "failed to launch"),
                   "failed")
      [] OTHER -> s

\* a timer of the subroutine expires
wake(s) ==
    IF s.sup.pc = "pollSleep" THEN poll([s EXCEPT !.sup.i = @ + 1])
    ELSE loopUntilConnectionDrops(s)

\* the targets of a toolchain configuration
Win32Target == [Platform |-> "win32", Port |-> 0, Ip |-> DEFAULT_IP]
ConsoleTarget == [Platform |-> "ps4", Port |-> GAME_PORT + 1, Ip |-> REMOTE_IP]
TargetLists == {<<>>, <<Win32Target>>, <<ConsoleTarget>>, <<ConsoleTarget, Win32Target>>}

\* mutant: keepConnecting loops without looking at the shutdown flag
keepConnecting_NoTest(s) ==
    IF getActiveToolchain(s)
    THEN [s EXCEPT !.sup.toolchain = TRUE, !.sup.keep = "config"]
    ELSE [s EXCEPT !.sup.keep = "sleep"]

\* keepConnecting(), from the loop test to the next await: toolchain.config()
\* if there is a toolchain, else the one-second timer
keepConnecting(s) ==
    IF s.sup.closed THEN [s EXCEPT !.sup.keep = "done"]
    ELSE IF getActiveToolchain(s)
    THEN [s EXCEPT !.sup.toolchain = TRUE, !.sup.keep = "config"]
    ELSE [s EXCEPT !.sup.keep = "sleep"]

\* the loop over config.Targets: one connectAllGames for each
RECURSIVE connectTargets(_, _, _)
connectTargets(s, targets, i) ==
    IF i > Len(targets) THEN s
    ELSE LET target == targets[i]
             isWin32 == target.Platform = "win32"
             port == IF isWin32 THEN GAME_PORT ELSE target.Port
             maxConnections == IF isWin32 THEN MAX_CONNECTIONS ELSE 1
             s1 == connectAllGames(s, port, maxConnections, target.Ip)
         IN  IF Len(s1.asked) >= 0 THEN connectTargets(s1, targets, i + 1) ELSE s1

\* toolchain.config() is fulfilled: the targets are connected, and the
\* one-second timer starts
configured(s, targets) == [connectTargets(s, targets, 1) EXCEPT !.sup.keep = "sleep"]

\* toolchain.config() is rejected (the file cannot be read): keepConnecting's
\* promise is rejected, and nothing handles it
configFailed(s) == [s EXCEPT !.sup.keep = "raised", !.sup.escaped = @ + 1]

\* deactivate()
deactivate(s) ==
    LET s1 == closeAll([s EXCEPT !.sup.closed = TRUE])
    IN  IF s1.sup.handle # 0 THEN killChildProcess(s1, s1.sup.handle) ELSE s1

----------------------------------------------------------------------------
(* StingrayConnection: the socket's events *)

\* the socket is open
onOpen(s, t) ==
    fire([s EXCEPT !.conn[t].state = "Ready",
                   !.conn[t].log = Append(@, Event("connect", 0))],
         t, "connect")

\* a text frame arrived: onDidReceiveData fires with the decoded object
onData(s, t) ==
    [s EXCEPT !.conn[t].received = @ + 1,
              !.conn[t].log = Append(@, Event("data", s.conn[t].received + 1))]

\* the socket is closed, after close() or by the peer or by a failed connect
onClose(s, t) ==
    fire([s EXCEPT !.conn[t].state = "Closed",
                   !.conn[t].log = Append(@, Event("disconnect", 0))],
         t, "disconnect")

\* mutant: a socket opens whatever the state of the transport
canOpen_Always(t) == TRUE

\* which socket events a transport can still get
canOpen(t) == conn[t].state = "Connecting" /\ ~conn[t].destroyed

\* mutant: frames are delivered whatever the state of the transport
canData_Always(t) == TRUE

canData(t) == conn[t].state = "Ready" /\ ~conn[t].destroyed

\* mutant: a closed socket reports its close again
canClose_Always(t) == TRUE

canClose(t) == conn[t].state # "Closed"

----------------------------------------------------------------------------
(* StingrayConnection: decoding a text frame *)

\* the bytes of a text frame: NUL, the braces of an object, and one byte that
\* stands for the text of a member
Bytes == {"NUL", "{", "}", "m"}

\* nothing is on the wire
NoFrame == [bytes |-> <<>>, pending |-> FALSE, parsed |-> FALSE, object |-> <<>>]

\* the peer has written these bytes as one text frame
Written(bytes) == [bytes |-> bytes, pending |-> TRUE, parsed |-> FALSE, object |-> <<>>]

\* mutant: the padding is left on the frame
strip_Nothing(bytes) == bytes

\* the frame without its trailing NUL bytes
RECURSIVE strip(_)
strip(bytes) ==
    IF bytes # <<>> /\ bytes[Len(bytes)] = "NUL"
    THEN strip(SubSeq(bytes, 1, Len(bytes) - 1))
    ELSE bytes

\* the text is one structured object: braces around members, and neither a
\* brace nor a NUL among the members
parses(text) ==
    /\ Len(text) >= 2 /\ text[1] = "{" /\ text[Len(text)] = "}"
    /\ \A i \in 2..(Len(text) - 1) : text[i] = "m"

\* the decoded object: the members between the braces
parse(text) == SubSeq(text, 2, Len(text) - 1)

\* what the transport makes of a text frame
decode(bytes) ==
    LET text == strip(bytes)
    IN  IF parses(text)
        THEN [bytes |-> bytes, pending |-> FALSE, parsed |-> TRUE, object |-> parse(text)]
        ELSE [bytes |-> bytes, pending |-> FALSE, parsed |-> FALSE, object |-> <<>>]

\* a frame of n NUL bytes
RECURSIVE padding(_)
padding(n) == IF n = 0 THEN <<>> ELSE <<"NUL">> \o padding(n - 1)

----------------------------------------------------------------------------
(* ConnectionHandler.identify *)

\* the frames a peer sends: the answer to the identify script, and a log line
Frames == {"stingray_identify", "message"}

\* one invocation of identify(connection) that found nothing in the cache
Identify(t) ==
    [ t      |-> t,            \* connection
      pc     |-> "pending",    \* pending, then, finally, done
      result |-> "none",       \* what identifyResult was resolved with
      timer  |-> "armed",      \* timeoutId: armed, fired, cleared, none
      value  |-> "none",       \* what the callback given to then() returned
      ret    |-> "none" ]      \* what the promise identify() returned resolved to

\* `if (info)` on what the cache holds for the connection
cached(s, t) == t \in DOMAIN s.identifyInfo /\ s.identifyInfo[t] = "info"

\* StingrayConnection.sendLua
sendLua(s, t) == sendJSON(s, t, "script")

\* identify(connection), up to the promise it returns
identify(s, t) ==
    IF cached(s, t)
    THEN [s EXCEPT !.identifies =
             Append(@, [Identify(t) EXCEPT !.pc = "done", !.timer = "none", !.ret = "info"])]
    ELSE LET k == Len(s.identifies) + 1
         IN  sendLua([s EXCEPT !.identifies = Append(@, Identify(t)),
                               !.conn[t].onDidReceiveData = add(@, Listener("identify", k))],
                     t)

\* resolve of identifyResult: the first call settles the promise and queues
\* the callback given to then(); later calls do nothing
resolveIdentify(s, k, info) ==
    IF s.identifies[k].result # "none" THEN s
    ELSE [s EXCEPT !.identifies[k].result = info,
                   !.identifies[k].pc = "then",
                   !.micro = Append(@, 0 - 1 - k)]

\* a listener of onDidReceiveData is called with a decoded frame
invokeData(s, l, data) ==
    IF l.k = "identify" /\ data = "stingray_identify"
    THEN resolveIdentify(s, l.c, "info")
    ELSE IF l.k = "output" /\ data \in {"message", "lua_error"}
    THEN [s EXCEPT !.outputs.channels[l.c].lines = @ + 1,
                   !.outputs.channels[l.c].callstacks =
                       IF data = "lua_error" THEN @ + 1 ELSE @]
    ELSE s

\* Multicast.fire of onDidReceiveData
RECURSIVE fireData(_, _, _, _, _)
fireData(s, t, data, snapshot, i) ==
    IF i > Len(snapshot) THEN s
    ELSE LET l == snapshot[i]
         IN  fireData(IF contains(s.conn[t].onDidReceiveData, l)
                      THEN invokeData(s, l, data) ELSE s,
                      t, data, snapshot, i + 1)

\* setTimeout(resolve, IDENTIFY_TIMEOUT, null) expires
identifyTimeout(s, k) ==
    resolveIdentify([s EXCEPT !.identifies[k].timer = "fired"], k, "null")

\* connection.onDidReceiveData.remove(onData)
unlisten(ls, k) == remove(ls, Listener("identify", k))

\* the callback given to then(): it caches the info and returns nothing
identified(s, k) ==
    [s EXCEPT !.identifyInfo = (s.identifies[k].t :> s.identifies[k].result) @@ @,
              !.identifies[k].value = "undefined",
              !.identifies[k].pc = "finally",
              !.micro = Append(@, 0 - 1 - k)]

\* the callback given to finally(), after which the promise identify()
\* returned resolves to what then() produced
cleanup(s, k) ==
    [s EXCEPT !.conn[s.identifies[k].t].onDidReceiveData = unlisten(@, k),
              !.identifies[k].timer = IF @ = "armed" THEN "cleared" ELSE @,
              !.identifies[k].pc = "done",
              !.identifies[k].ret = s.identifies[k].value]

\* the continuation queued for invocation k
continueIdentify(s, k) ==
    IF s.identifies[k].pc = "then" THEN identified(s, k) ELSE cleanup(s, k)

----------------------------------------------------------------------------
(* src/toolchain.ts: the active toolchain and the path it was made from *)

\* directories the binariesPath setting may name
Directories == {"A", "B"}

\* what config.get('binariesPath') may return: nothing, null, the empty
\* string, a directory
Settings == {"undefined", "null", ""} \cup Directories

\* the values JavaScript's `!` turns to true
falsy(v) == v \in {"undefined", "null", ""}

\* a StingrayToolchain made from a path
StingrayToolchain(path) == [kind |-> "object", path |-> path]

\* null and undefined, where a toolchain may stand
Null == [kind |-> "null", path |-> ""]

Undefined == [kind |-> "undefined", path |-> ""]

\* the module once loaded: neither variable assigned, nothing asked yet
Loaded(setting, files) ==
    [ activeToolchain |-> Undefined,    \* _activeToolchain
      toolchainPath   |-> "undefined",  \* _toolchainPath
      setting         |-> setting,      \* Hydra.binariesPath
      files           |-> files,        \* the directories that hold the configuration file
      ret             |-> Undefined,    \* what the last call returned
      constructed     |-> FALSE,        \* the last call ran the constructor
      threw           |-> FALSE,        \* and the constructor threw
      discarded       |-> Undefined,    \* the toolchain the last call dropped
      asked           |-> FALSE ]       \* flips with every call

\* StingrayToolchain.constructor: throws unless the configuration file exists
fileExists(m, path) == path \in m.files

\* mutant: the cached toolchain is returned whatever the setting is now
getActiveToolchain_Sticky(m) ==
    IF m.activeToolchain.kind = "object"
    THEN [m EXCEPT !.ret = m.activeToolchain, !.constructed = FALSE, !.threw = FALSE,
                   !.discarded = Undefined]
    ELSE LET m1 == [m EXCEPT !.activeToolchain = Null, !.toolchainPath = m.setting,
                             !.constructed = FALSE, !.threw = FALSE,
                             !.discarded = m.activeToolchain]
         IN  IF falsy(m.setting) THEN [m1 EXCEPT !.ret = Null]
             ELSE IF fileExists(m, m.setting)
                  THEN [m1 EXCEPT !.activeToolchain = StingrayToolchain(m.setting),
                                  !.ret = StingrayToolchain(m.setting),
                                  !.constructed = TRUE]
                  ELSE [m1 EXCEPT !.ret = Null, !.constructed = TRUE, !.threw = TRUE]

\* getActiveToolchain() of src/toolchain.ts
toolchainOf(m) ==
    IF m.activeToolchain.kind = "object" /\ m.toolchainPath = m.setting
    THEN [m EXCEPT !.ret = m.activeToolchain, !.constructed = FALSE, !.threw = FALSE,
                   !.discarded = Undefined]
    ELSE LET m1 == [m EXCEPT !.activeToolchain = Null, !.toolchainPath = m.setting,
                             !.constructed = FALSE, !.threw = FALSE,
                             !.discarded = m.activeToolchain]
         IN  IF falsy(m.setting) THEN [m1 EXCEPT !.ret = Null]
             ELSE IF fileExists(m, m.setting)
                  THEN [m1 EXCEPT !.activeToolchain = StingrayToolchain(m.setting),
                                  !.ret = StingrayToolchain(m.setting),
                                  !.constructed = TRUE]
                  ELSE [m1 EXCEPT !.ret = Null, !.constructed = TRUE, !.threw = TRUE]

----------------------------------------------------------------------------
(* The steps of the event loop *)

\* a registry call and what it returned
Called(op, port, arg, ret) == [op |-> op, port |-> port, arg |-> arg, ret |-> ret]
NoCall == Called("none", 0, 0, 0)

\* the heap becomes the state; cap bounds the transports constructed
Commit(s, call, cap) ==
    /\ Len(s.conn) <= cap
    /\ conn' = s.conn
    /\ compiler' = s.compiler
    /\ game' = s.game
    /\ status' = s.status
    /\ statusLog' = s.statusLog
    /\ calls' = s.calls
    /\ micro' = s.micro
    /\ sup' = s.sup
    /\ procs' = s.procs
    /\ env' = env
    /\ identifyInfo' = s.identifyInfo
    /\ identifies' = s.identifies
    /\ outputs' = s.outputs
    /\ frame' = s.frame
    /\ tool' = tool
    /\ last' = [op |-> call.op, port |-> call.port, arg |-> call.arg, ret |-> call.ret,
                created |-> Len(s.conn) - Len(conn), asked |-> s.asked,
                hosts |-> s.hosts,
                games |-> s.allGameConnections]

\* macrotasks run only when no continuation is queued
Idle == micro = <<>>

RECURSIVE receivedFrom(_)
receivedFrom(i) == IF i > Len(conn) THEN 0 ELSE conn[i].received + receivedFrom(i + 1)

SocketOpen(t) ==
    /\ Idle /\ canOpen(t)
    /\ Commit(onOpen(Heap, t), NoCall, Len(conn))

SocketData(t) ==
    /\ Idle /\ canData(t) /\ receivedFrom(1) < MaxData
    /\ Commit(onData(Heap, t), NoCall, Len(conn))

SocketClose(t) ==
    /\ Idle /\ canClose(t)
    /\ Commit(onClose(Heap, t), NoCall, Len(conn))

\* a frame arrives and is handed to the listeners of onDidReceiveData
Receive(t, data) ==
    /\ Idle /\ canData(t) /\ receivedFrom(1) < MaxData
    /\ Commit(fireData(onData(Heap, t), t, data, conn[t].onDidReceiveData, 1),
              Called(data, 0, t, 0), Len(conn))

\* the text frame arrives: it is decoded, and onDidReceiveData fires with the
\* object if there is one; a frame that does not parse is dropped
deliver(s, t) ==
    LET d == decode(s.frame.bytes)
        s1 == [s EXCEPT !.frame = d]
    IN  IF d.parsed
        THEN fireData(onData(s1, t), t,
                      IF d.object = <<>> THEN "untyped" ELSE "message",
                      s.conn[t].onDidReceiveData, 1)
        ELSE s1

DeliverFrame(t) ==
    /\ Idle /\ canData(t) /\ frame.pending
    /\ Commit(deliver(Heap, t), NoCall, Len(conn))

\* somebody asks who is at the other end of transport t
IdentifyCall(t) ==
    /\ Idle /\ Len(identifies) < MaxIdentifies
    /\ Commit(identify(Heap, t), NoCall, Len(conn))

\* the identify timer of invocation k expires
IdentifyTimeout(k) ==
    /\ Idle /\ identifies[k].timer = "armed"
    /\ Commit(identifyTimeout(Heap, k), NoCall, Len(conn))

\* the first queued continuation runs, and it belongs to an identify
ResumeIdentify ==
    /\ micro # <<>> /\ Head(micro) < 0 - 1
    /\ Commit(continueIdentify([Heap EXCEPT !.micro = Tail(@)], 0 - 1 - Head(micro)),
              NoCall, Len(conn))

GetGame(port, ip, cap) ==
    /\ Idle
    /\ LET s == getGame(Heap, port, ip)
       IN  Commit(s, Called("getGame", port, 0, s.game[port]), cap)

ConnectAllGames(portStart, range, ip, cap) ==
    /\ Idle
    /\ Commit(connectAllGames(Heap, portStart, range, ip),
              Called("connectAllGames", portStart, range, 0), cap)

GetAllGames ==
    /\ Idle
    /\ Commit(getAllGames(Heap), Called("getAllGames", 0, 0, 0), Len(conn))

\* the Connection.disconnect command: game.close() on a ready game
CloseGame(port) ==
    /\ Idle /\ port \in DOMAIN game /\ conn[game[port]].state = "Ready"
    /\ ~conn[game[port]].destroyed
    /\ Commit(close(Heap, game[port]), NoCall, Len(conn))

\* deactivate(): closeAll()
CloseAll ==
    /\ Idle
    /\ \E t \in 1..Len(conn) : ~conn[t].destroyed /\ conn[t].state # "Closed"
    /\ Commit(closeAll(Heap), NoCall, Len(conn))

ConnectToCompiler(attempts) ==
    /\ Idle /\ Len(calls) < MaxCalls
    /\ Commit(connectToCompiler(Heap, attempts), NoCall, MaxTransports)

\* the first queued continuation runs
Resume ==
    /\ micro # <<>> /\ Head(micro) > 0
    /\ Commit(afterWait([Heap EXCEPT !.micro = Tail(@)], Head(micro)), NoCall, MaxTransports)

\* the backoff timer of a sleeping call expires
Wake(c) ==
    /\ Idle /\ calls[c].pc = "sleep"
    /\ Commit(afterSleep(Heap, c), NoCall, MaxTransports)

Constructed ==
    /\ conn = constructor.conn
    /\ compiler = constructor.compiler
    /\ game = constructor.game
    /\ status = constructor.status
    /\ statusLog = constructor.statusLog
    /\ calls = constructor.calls
    /\ micro = constructor.micro
    /\ last = [op |-> "none", port |-> 0, arg |-> 0, ret |-> 0, created |-> 0, asked |-> <<>>,
                hosts |-> <<>>, games |-> <<>>]
    /\ sup = module
    /\ procs = <<>>
    /\ env = [config |-> "unset", external |-> FALSE]
    /\ identifyInfo = <<>>
    /\ identifies = <<>>
    /\ outputs = NoOutputs

\* no frame is on the wire
Init == Constructed /\ frame = NoFrame /\ tool = Loaded("undefined", {})

\* Spec: the compiler slot with every connectToCompiler interleaving, and one game port
Next ==
    \/ \E t \in 1..Len(conn) : SocketOpen(t)
    \/ \E t \in 1..Len(conn) : SocketClose(t)
    \/ GetGame(GAME_PORT, DEFAULT_IP, MaxTransports)
    \/ CloseAll
    \/ \E a \in 0..MaxAttempts : ConnectToCompiler(a)
    \/ Resume
    \/ \E c \in 1..Len(calls) : Wake(c)

Spec == Init /\ [][Next]_vars

\* SpecGames: the game slots with scans of real size, and the sockets of the
\* first transports
ScanStarts == {GAME_PORT}
ScanRanges == {0 - 1, 0, 1, 31, 50}
Followed == 1..Min(Len(conn), MaxFollowed)

NextGames ==
    \/ \E t \in Followed : SocketOpen(t)
    \/ \E t \in Followed : SocketClose(t)
    \/ \E ip \in Ips : GetGame(GAME_PORT, ip, MaxGameTransports)
    \/ \E p \in ScanStarts, r \in ScanRanges, ip \in Ips :
            ConnectAllGames(p, r, ip, MaxGameTransports)
    \/ CloseGame(GAME_PORT)

SpecGames == Init /\ [][NextGames]_vars

\* SpecTransport: the life of each transport, with its frames and close() calls
NextTransport ==
    \/ \E t \in 1..Len(conn) : SocketOpen(t)
    \/ \E t \in 1..Len(conn) : SocketData(t)
    \/ \E t \in 1..Len(conn) : SocketClose(t)
    \/ \E p \in {GAME_PORT, GAME_PORT + 1} : GetGame(p, DEFAULT_IP, MaxTransports)
    \/ \E p \in {GAME_PORT, GAME_PORT + 1} : CloseGame(p)
    \/ CloseAll

SpecTransport == Init /\ [][NextTransport]_vars

\* SpecAllGames: two instance ports and the compiler, with getAllGames
\* called between any two events
NextAllGames ==
    \/ \E t \in 1..Len(conn) : SocketOpen(t)
    \/ \E t \in 1..Len(conn) : SocketClose(t)
    \/ \E p \in {GAME_PORT, GAME_PORT + 1} : GetGame(p, DEFAULT_IP, MaxTransports)
    \/ \E p \in {GAME_PORT, GAME_PORT + 1} : CloseGame(p)
    \/ GetAllGames

SpecAllGames == Init /\ [][NextAllGames]_vars

\* SpecFrames: a text frame of any content up to MaxFrame bytes, with up to
\* MaxPad bytes of padding, arrives on the compiler transport or on an
\* instance transport
RECURSIVE FramesUpTo(_)
FramesUpTo(n) ==
    IF n = 0 THEN {<<>>}
    ELSE LET shorter == FramesUpTo(n - 1)
         IN  shorter \cup {Append(f, b) : f \in {g \in shorter : Len(g) = n - 1}, b \in Bytes}

Delivered == {f \o padding(n) : f \in FramesUpTo(MaxFrame), n \in 0..MaxPad}

NextFrames ==
    \/ \E t \in 1..Len(conn) : SocketOpen(t)
    \/ \E t \in 1..Len(conn) : SocketClose(t)
    \/ GetGame(GAME_PORT, DEFAULT_IP, Len(constructor.conn) + 1)
    \/ \E t \in 1..Len(conn) : DeliverFrame(t)

InitFrames ==
    /\ Constructed /\ frame \in {Written(bytes) : bytes \in Delivered}
    /\ tool = Loaded("undefined", {})

SpecFrames == InitFrames /\ [][NextFrames]_vars

\* SpecIdentify: identify invocations on the compiler transport and on the one
\* game transport, with the frames, the timers and the socket events
NextIdentify ==
    \/ \E t \in 1..Len(conn) : SocketOpen(t)
    \/ \E t \in 1..Len(conn) : SocketClose(t)
    \/ \E t \in 1..Len(conn), data \in Frames : Receive(t, data)
    \/ GetGame(GAME_PORT, DEFAULT_IP, Len(constructor.conn) + 1)
    \/ \E t \in 1..Len(conn) : IdentifyCall(t)
    \/ \E k \in 1..Len(identifies) : IdentifyTimeout(k)
    \/ ResumeIdentify

SpecIdentify == Init /\ [][NextIdentify]_vars

\* SpecRetry: the compiler slot alone; every wait and every sleep of a call
\* that was started comes to an end
RECURSIVE owedFrom(_)
owedFrom(c) ==
    IF c > Len(calls) THEN 0
    ELSE (IF calls[c].pc = "done" THEN 0 ELSE calls[c].attempts - calls[c].i)
         + owedFrom(c + 1)

\* a call is started only if the transports its attempts may construct fit
ConnectToCompilerWithin(attempts) ==
    /\ Len(conn) + owedFrom(1) + attempts <= MaxTransports
    /\ ConnectToCompiler(attempts)

\* a connecting socket opens or fails
Settle(t) ==
    /\ t <= Len(conn) /\ conn[t].state = "Connecting"
    /\ (SocketOpen(t) \/ SocketClose(t))

\* the backoff timer of call c
Timer(c) == c <= Len(calls) /\ Wake(c)

NextRetry ==
    \/ \E t \in 1..Len(conn) : SocketOpen(t)
    \/ \E t \in 1..Len(conn) : SocketClose(t)
    \/ CloseAll
    \/ \E a \in 0..MaxAttempts : ConnectToCompilerWithin(a)
    \/ Resume
    \/ \E c \in 1..Len(calls) : Wake(c)

SpecRetry ==
    /\ Init /\ [][NextRetry]_vars
    /\ WF_vars(Resume)
    /\ \A c \in 1..MaxCalls : WF_vars(Timer(c))
    /\ \A t \in 1..MaxTransports : WF_vars(Settle(t))


\* SpecSupervisor: the Supervisor with the processes it spawns, a foreign
\* compiler that comes and goes, the configuration, and the connectToCompiler
\* calls of the task provider

\* something accepts connections on the compiler port
Listening ==
    env.external \/ \E p \in 1..Len(procs) : procs[p].state = "listening"

\* a step of the surroundings: nothing of the program changes
Surroundings(e, ps) ==
    /\ Idle
    /\ env' = e /\ procs' = ps
    /\ last' = [op |-> "none", port |-> 0, arg |-> 0, ret |-> 0, created |-> 0, asked |-> <<>>,
                hosts |-> <<>>, games |-> <<>>]
    /\ UNCHANGED <<conn, compiler, game, status, statusLog, calls, micro, sup,
                   identifyInfo, identifies, outputs, frame, tool>>

\* updateIsStingrayProject(): with a workspace folder open it asks for the
\* active toolchain, which constructs and caches one from a valid path
updateIsStingrayProject(m, config, folder) ==
    [m EXCEPT !.toolchain = @ \/ (folder /\ config = "valid")]

\* the user edits the toolchain path, and onDidChangeConfiguration runs
\* updateIsStingrayProject
ConfigChange(c) ==
    /\ Idle /\ c # env.config /\ (~sup.running \/ sup.pc = "killFirst")
    /\ env' = [env EXCEPT !.config = c]
    /\ \E folder \in BOOLEAN :
          sup' = updateIsStingrayProject(sup, c, folder)
    /\ last' = [op |-> "none", port |-> 0, arg |-> 0, ret |-> 0, created |-> 0, asked |-> <<>>,
                hosts |-> <<>>, games |-> <<>>]
    /\ UNCHANGED <<conn, compiler, game, status, statusLog, calls, micro, procs,
                   identifyInfo, identifies, outputs, frame, tool>>

\* a compiler this program did not spawn starts or stops listening
ForeignCompiler == Surroundings([env EXCEPT !.external = ~@], procs)

\* the spawned compiler begins to listen
ChildListens(p) ==
    /\ procs[p].state = "starting"
    /\ Surroundings(env, [procs EXCEPT ![p].state = "listening"])

\* the spawned compiler terminates: by itself, killed by someone, or by taskkill
ChildExits(p, code) ==
    /\ procs[p].state # "exited"
    /\ Surroundings(env, [procs EXCEPT ![p].state = "exited", ![p].exitCode = code])

\* a connect succeeds only where something listens
CompilerOpen(t) == Listening /\ SocketOpen(t)

\* a socket closes when nothing listens any more, or after close()
CompilerClose(t) == (~Listening \/ conn[t].destroyed) /\ SocketClose(t)

CompilerSettle(t) ==
    /\ t <= Len(conn) /\ conn[t].state = "Connecting"
    /\ (CompilerOpen(t) \/ CompilerClose(t))

\* activate() and the Compiler.reconnect command, which does nothing while
\* a subroutine runs
KeepCompilerRunning ==
    /\ Idle /\ ~sup.running /\ ~sup.closed /\ sup.runs < MaxRuns
    /\ Commit(keepCompilerRunning(Heap), NoCall, Len(conn))

\* the first queued continuation runs, and it is the Supervisor's
ResumeSupervisor ==
    /\ micro # <<>> /\ Head(micro) \in {0, 0 - 1}
    /\ LET s == [Heap EXCEPT !.micro = Tail(@)]
       IN  Commit(IF Head(micro) < 0 THEN hop(s) ELSE resume(s), NoCall, Len(conn))

\* taskkill, the secret file or the launch has finished
Settled(ok) ==
    /\ Idle /\ sup.pc \in {"killFirst", "secret", "launch", "killFail"}
    /\ Commit(settle(Heap, ok), NoCall, Len(conn))

\* the one-second timer of the poll loop or of loopUntilConnectionDrops expires
SupervisorWake ==
    /\ Idle /\ sup.pc \in {"pollSleep", "watch"}
    /\ Commit(wake(Heap), NoCall, Len(conn))

Deactivate ==
    /\ Idle /\ ~sup.closed
    /\ Commit(deactivate(Heap), NoCall, Len(conn))

\* activate() calls keepConnecting()
KeepConnecting ==
    /\ Idle /\ sup.keep = "none" /\ ~sup.closed
    /\ Commit(keepConnecting(Heap), NoCall, Len(conn))

\* toolchain.config() is fulfilled with a configuration
ConfigSettles(targets) ==
    /\ Idle /\ sup.keep = "config"
    /\ Commit(configured(Heap, targets), NoCall, MaxGameTransports)

\* toolchain.config() is rejected
ConfigFails ==
    /\ Idle /\ sup.keep = "config"
    /\ Commit(configFailed(Heap), NoCall, Len(conn))

ConfigReturns == ConfigFails \/ \E targets \in TargetLists : ConfigSettles(targets)

\* the one-second timer of keepConnecting expires
KeepWake ==
    /\ Idle /\ sup.keep = "sleep"
    /\ Commit(keepConnecting(Heap), NoCall, Len(conn))

\* a task of the task provider calls connectToCompiler(), with its default of
\* one attempt
TaskConnects ==
    /\ Idle /\ ~sup.closed /\ Len(calls) < MaxTasks
    /\ Len(conn) + owedFrom(1) + 1 <= MaxTransports
    /\ Commit(connectToCompiler(Heap, 1), NoCall, MaxTransports)

NextSupervisor ==
    \/ KeepCompilerRunning
    \/ ResumeSupervisor
    \/ \E ok \in BOOLEAN : Settled(ok)
    \/ SupervisorWake
    \/ Deactivate
    \/ \E c \in Configs : ConfigChange(c)
    \/ ForeignCompiler
    \/ \E p \in 1..Len(procs) : ChildListens(p)
    \/ \E p \in 1..Len(procs), code \in {"0", "1"} : ChildExits(p, code)
    \/ \E t \in 1..Len(conn) : CompilerOpen(t)
    \/ \E t \in 1..Len(conn) : CompilerClose(t)
    \/ TaskConnects
    \/ Resume

SpecSupervisor ==
    /\ Init /\ [][NextSupervisor]_vars
    /\ WF_vars(ResumeSupervisor) /\ WF_vars(Resume)
    /\ WF_vars(\E ok \in BOOLEAN : Settled(ok))
    /\ WF_vars(SupervisorWake)
    /\ \A t \in 1..MaxTransports : WF_vars(CompilerSettle(t))

\* the user runs the Compiler.reconnect command
Reconnect ==
    /\ Idle /\ ~sup.closed /\ (sup.running \/ sup.runs < MaxRuns)
    /\ Commit(reconnect(Heap), Called("reconnect", 0, 0, 0), Len(conn))

\* SpecReconnect: the Supervisor, started by activate() and by the command
NextReconnect ==
    \/ KeepCompilerRunning
    \/ Reconnect
    \/ ResumeSupervisor
    \/ \E ok \in BOOLEAN : Settled(ok)
    \/ SupervisorWake
    \/ Deactivate
    \/ \E c \in Configs : ConfigChange(c)
    \/ ForeignCompiler
    \/ \E p \in 1..Len(procs) : ChildListens(p)
    \/ \E p \in 1..Len(procs), code \in {"0", "1"} : ChildExits(p, code)
    \/ \E t \in 1..Len(conn) : CompilerOpen(t)
    \/ \E t \in 1..Len(conn) : CompilerClose(t)

SpecReconnect == Init /\ [][NextReconnect]_vars

\* SpecToolchain: getActiveToolchain() of src/toolchain.ts, the setting and
\* the disk
Elsewhere ==
    UNCHANGED <<conn, compiler, game, status, statusLog, calls, micro, last, sup, procs,
                env, identifyInfo, identifies, outputs, frame>>

\* some caller asks for the active toolchain
GetActiveToolchain ==
    /\ tool' = [toolchainOf(tool) EXCEPT !.asked = ~@]
    /\ Elsewhere

\* the user edits Hydra.binariesPath
SetToolchainPath(v) ==
    /\ v # tool.setting
    /\ tool' = [tool EXCEPT !.setting = v] /\ Elsewhere

\* a toolchain is installed in a directory
Install(d) ==
    /\ d \notin tool.files
    /\ tool' = [tool EXCEPT !.files = @ \cup {d}] /\ Elsewhere

\* the toolchain of a directory is removed
Remove(d) ==
    /\ d \in tool.files
    /\ tool' = [tool EXCEPT !.files = @ \ {d}] /\ Elsewhere

InitToolchain ==
    /\ Constructed /\ frame = NoFrame
    /\ tool \in {Loaded(v, files) : v \in Settings, files \in SUBSET Directories}

NextToolchain ==
    \/ GetActiveToolchain
    \/ \E v \in Settings : SetToolchainPath(v)
    \/ \E d \in Directories : Install(d)
    \/ \E d \in Directories : Remove(d)

SpecToolchain == InitToolchain /\ [][NextToolchain]_vars

\* SpecOverlap: connectToCompiler calls that overlap, each with one attempt or
\* more, and the sockets of the compiler transports

\* the iterations that the suspended calls from c on have not begun
RECURSIVE left(_)
left(c) ==
    IF c > Len(calls) THEN 0
    ELSE (IF calls[c].pc = "done" THEN 0 ELSE calls[c].attempts - calls[c].i - 1)
         + left(c + 1)

\* a call is started while another is suspended, if the transports that the
\* iterations left to both may construct fit
OverlappingCall(attempts) ==
    /\ Idle /\ Len(calls) < MaxTasks
    /\ Len(conn) + left(1) + attempts <= MaxTransports
    /\ Commit(connectToCompiler(Heap, attempts), NoCall, MaxTransports)

NextOverlap ==
    \/ \E t \in 1..Len(conn) : SocketOpen(t)
    \/ \E t \in 1..Len(conn) : SocketClose(t)
    \/ \E a \in 1..MaxAttempts : OverlappingCall(a)
    \/ Resume
    \/ \E c \in 1..Len(calls) : Wake(c)

SpecOverlap ==
    /\ Init /\ [][NextOverlap]_vars
    /\ WF_vars(Resume)
    /\ \A c \in 1..MaxTasks : WF_vars(Timer(c))
    /\ \A t \in 1..MaxTransports : WF_vars(Settle(t))

\* SpecOutput: log frames on the compiler transport, which two tasks ask
\* connectToCompiler for, and on the transports of one instance port
OutputFrames == {"message", "lua_error", "stingray_identify"}

NextOutput ==
    \/ \E t \in 1..Len(conn) : SocketOpen(t)
    \/ \E t \in 1..Len(conn) : SocketClose(t)
    \/ \E t \in 1..Len(conn), data \in OutputFrames : Receive(t, data)
    \/ GetGame(GAME_PORT, DEFAULT_IP, Len(constructor.conn) + 2)
    \/ TaskConnects
    \/ Resume

SpecOutput == Init /\ [][NextOutput]_vars

\* SpecShutdown: the two background loops of activate(), keepConnecting and
\* the Supervisor's watch over a compiler it found, with deactivate(), the
\* configuration, and the sockets of the compiler and of the first instance
NextShutdown ==
    \/ KeepConnecting
    \/ \E targets \in TargetLists : ConfigSettles(targets)
    \/ ConfigFails
    \/ KeepWake
    \/ KeepCompilerRunning
    \/ ResumeSupervisor
    \/ SupervisorWake
    \/ Deactivate
    \/ ConfigChange("valid")
    \/ ForeignCompiler
    \/ \E t \in 1..Min(Len(conn), Len(constructor.conn) + 1) : CompilerOpen(t)
    \/ \E t \in 1..Min(Len(conn), Len(constructor.conn) + 1) : CompilerClose(t)

SpecShutdown ==
    /\ Init /\ [][NextShutdown]_vars
    /\ WF_vars(ResumeSupervisor) /\ WF_vars(SupervisorWake)
    /\ WF_vars(KeepWake) /\ WF_vars(ConfigReturns)

----------------------------------------------------------------------------
(* Properties *)

Transports == 1..Len(conn)

\* how often transport t fired event e
Fired(t, e) == Cardinality({i \in DOMAIN conn[t].log : conn[t].log[i].e = e})

\* the slot a transport was constructed for
SlotOf(t) == IF conn[t].slot = "game" THEN <<"game", conn[t].port>> ELSE <<"compiler", 0>>

\* the transport a slot holds now
Current(t) == IF conn[t].slot = "game" THEN game[conn[t].port] ELSE compiler

\* C1: a transport fires onDisconnect at most once, exactly once by the time it
\* is Closed, and never fires onConnect after it
C1_DisconnectOnce ==
    \A t \in Transports :
        /\ Fired(t, "disconnect") <= 1
        /\ (conn[t].state = "Closed") <=> (Fired(t, "disconnect") = 1)
        /\ \A i, j \in DOMAIN conn[t].log :
              (conn[t].log[i].e = "disconnect" /\ conn[t].log[j].e = "connect") => j < i

\* one transport closed after close() once it had connected, another closed
\* without ever connecting
C1_Witness ==
    \E t, u \in Transports :
        /\ conn[t].destroyed /\ Fired(t, "connect") = 1 /\ Fired(t, "disconnect") = 1
        /\ Fired(u, "connect") = 0 /\ Fired(u, "disconnect") = 1

\* C2: onConnect fires at most once; every onReceiveData comes after onConnect
\* and before onDisconnect; frames are delivered in the order they arrived
C2_EventOrder ==
    \A t \in Transports :
        LET log == conn[t].log
        IN  /\ Fired(t, "connect") <= 1
            /\ \A i \in DOMAIN log :
                  log[i].e = "data" =>
                     /\ \E j \in 1..(i - 1) : log[j].e = "connect"
                     /\ \A j \in 1..(i - 1) : log[j].e # "disconnect"
            /\ \A i, j \in DOMAIN log :
                  (log[i].e = "data" /\ log[j].e = "data" /\ i < j) => log[i].n < log[j].n
            /\ Fired(t, "data") = conn[t].received

\* a transport that received two frames and then disconnected
C2_Witness ==
    \E t \in Transports : Fired(t, "data") = 2 /\ Fired(t, "disconnect") = 1

\* C3: every transport that is not Closed is the current transport of its
\* slot, so a slot never has two transports that are not Closed
C3_OneLivePerSlot ==
    /\ \A t \in Transports : conn[t].state # "Closed" => Current(t) = t
    /\ \A t, u \in Transports :
          (t # u /\ SlotOf(t) = SlotOf(u)) =>
              (conn[t].state = "Closed" \/ conn[u].state = "Closed")

\* the compiler slot holds a live successor of a closed transport while a game
\* slot holds a live transport
C3_Witness ==
    /\ \E t \in Transports : conn[t].slot = "compiler" /\ conn[t].state = "Closed"
    /\ conn[compiler].state # "Closed"
    /\ \E p \in DOMAIN game : conn[game[p]].state # "Closed"

\* C4: getGame(p) on a port whose stored transport is not Closed returns that
\* transport and constructs nothing
C4_SameWhileOpen ==
    [][\A p \in DOMAIN game :
          (last'.op = "getGame" /\ last'.port = p /\ conn[game[p]].state # "Closed") =>
              (last'.ret = game[p] /\ game' = game /\ Len(conn') = Len(conn))]_vars

\* getGame returned, without constructing, a transport that is still Connecting
C4_Witness ==
    /\ last.op = "getGame" /\ last.created = 0
    /\ conn[last.ret].state = "Connecting"

\* C5: getGame(p) on a port whose stored transport is Closed constructs a new
\* transport, stores it in place of the closed one and returns it; getGame
\* never returns a Closed transport
C5_NewAfterClosed ==
    [][/\ \A p \in DOMAIN game :
             (last'.op = "getGame" /\ last'.port = p /\ conn[game[p]].state = "Closed") =>
                 /\ last'.ret = Len(conn) + 1
                 /\ last'.ret # game[p]
                 /\ Len(conn') = Len(conn) + 1
                 /\ game'[p] = last'.ret
       /\ last'.op = "getGame" => conn'[last'.ret].state # "Closed"]_vars

\* getGame constructed the successor of a transport that had been Ready
C5_Witness ==
    /\ last.op = "getGame" /\ last.created = 1
    /\ \E t \in Transports :
          /\ t # last.ret /\ SlotOf(t) = <<"game", last.port>>
          /\ conn[t].state = "Closed" /\ Fired(t, "connect") = 1

\* the ports portStart .. portStart + min(range, 31) - 1, in order and as a set
ScanPorts(portStart, range) ==
    [i \in 1..Min(range, MAX_CONNECTIONS) |-> portStart + i - 1]

ScanRange(portStart, range) ==
    portStart..(portStart + Min(range, MAX_CONNECTIONS) - 1)

\* C6: connectAllGames(portStart, range) calls getGame for exactly the ports
\* portStart .. portStart + min(range, 31) - 1, constructs at most 31
\* transports, all of them for ports of that range, and changes no other slot
C6_ScanClamped ==
    [][last'.op = "connectAllGames" =>
          /\ last'.asked = ScanPorts(last'.port, last'.arg)
          /\ Len(last'.asked) <= MAX_CONNECTIONS
          /\ Len(conn') - Len(conn) <= MAX_CONNECTIONS
          /\ \A t \in (Len(conn) + 1)..Len(conn') :
                conn'[t].port \in ScanRange(last'.port, last'.arg)
          /\ \A p \in DOMAIN game' :
                p \in DOMAIN game \/ p \in ScanRange(last'.port, last'.arg)
          /\ \A p \in DOMAIN game :
                p \notin ScanRange(last'.port, last'.arg) => game'[p] = game[p]
          /\ (last'.port = GAME_PORT /\ last'.arg = 50) =>
                 ScanRange(last'.port, last'.arg) = GAME_PORT..(GAME_PORT + 30)]_vars

\* connectAllGames(14000, 50) constructed 31 transports
C6_Witness ==
    /\ last.op = "connectAllGames" /\ last.port = GAME_PORT /\ last.arg = 50
    /\ last.created = MAX_CONNECTIONS

\* the first Connected of the log comes after a Connecting
ConnectingFirst ==
    \A i \in DOMAIN statusLog :
        statusLog[i] = "Connected" => \E j \in 1..(i - 1) : statusLog[j] = "Connecting"

\* C7 as claimed: once Connected is published, the statuses began with
\* Disconnected and a Connecting came before the Connected
C7_StartsDisconnected ==
    status = "Connected" => (statusLog[1] = "Disconnected" /\ ConnectingFirst)

\* C7: the status after construction is Connecting, and no Connected is
\* published before a Connecting
C7_StartsConnecting ==
    statusLog[1] = "Connecting" /\ ConnectingFirst

\* a connectToCompiler call ended Connected after the constructor's transport
\* had failed: Connecting, Disconnected, Connecting, Connected
C7_Witness ==
    /\ status = "Connected"
    /\ Len(statusLog) >= 4
    /\ statusLog[2] = "Disconnected" /\ statusLog[3] = "Connecting"
    /\ statusLog[4] = "Connected"

\* C8 as claimed: every finished call set the status to Connecting
C8_AlwaysConnecting ==
    \A c \in 1..Len(calls) : calls[c].pc = "done" => calls[c].connecting >= 1

\* C8: every finished call with attempts >= 1 set the status to Connecting, and
\* the Connecting was published after the call began
C8_ConnectingWhenAttempting ==
    \A c \in 1..Len(calls) :
        (calls[c].pc = "done" /\ calls[c].attempts >= 1) =>
            /\ calls[c].connecting >= 1
            /\ \E i \in (calls[c].from + 1)..Len(statusLog) : statusLog[i] = "Connecting"

\* a call with two attempts finished after both failed
C8_Witness ==
    \E c \in 1..Len(calls) :
        calls[c].pc = "done" /\ calls[c].attempts = 2 /\ calls[c].connecting = 2

\* C9 as claimed: the step that closes a Ready compiler transport publishes
\* Disconnected, and publishes no Connecting
C9_ClosePublishesDisconnected ==
    [][\A t \in Transports :
          (conn[t].slot = "compiler" /\ conn[t].state = "Ready" /\ conn'[t].state = "Closed") =>
              /\ status' = "Disconnected"
              /\ Len(statusLog') > Len(statusLog)
              /\ \A i \in (Len(statusLog) + 1)..Len(statusLog') : statusLog'[i] # "Connecting"]_vars

\* C10 as claimed: the status is Connected only while the current compiler
\* transport is Ready
C10_ConnectedIsReady ==
    status = "Connected" => conn[compiler].state = "Ready"

\* a step that runs the continuation of call c
Resumes(c) == micro # <<>> /\ Head(micro) = c

\* C11: a call awaits at most `attempts` outcomes, sleeps only between two
\* attempts, constructs a compiler transport only when the current one is
\* Closed, ends in the continuation that finds the compiler Ready, and ends
\* at all when every connecting socket opens or fails
C11_BoundedRetry ==
    /\ [](\A c \in 1..Len(calls) :
            /\ calls[c].waits <= calls[c].attempts
            /\ calls[c].sleeps <= calls[c].waits
            /\ calls[c].pc = "sleep" => calls[c].i + 1 < calls[c].attempts
            /\ (calls[c].pc = "done" /\ calls[c].waits > 0) =>
                   calls[c].sleeps < calls[c].waits)
    /\ [][Len(conn') > Len(conn) => conn[compiler].state = "Closed"]_vars
    /\ [][\A c \in 1..Len(calls) :
            (Resumes(c) /\ conn[compiler].state = "Ready") =>
                /\ calls'[c].pc = "done" /\ calls'[c].ret = compiler
                /\ calls'[c].waits = calls[c].waits
                /\ Len(conn') = Len(conn)]_vars
    /\ \A c \in 1..MaxCalls :
          (Len(calls) >= c) ~> (Len(calls) >= c /\ calls[c].pc = "done")

\* a call with two attempts ended Ready on the second, after one sleep, on a
\* transport it constructed
C11_Witness ==
    \E c \in 1..Len(calls) :
        /\ calls[c].pc = "done" /\ calls[c].attempts = 2
        /\ calls[c].waits = 2 /\ calls[c].sleeps = 1
        /\ calls[c].ret > 1 /\ conn[calls[c].ret].state = "Ready"

\* the Supervisor is in its poll loop and process p, which it spawned, listens
PollingUp(p) ==
    /\ sup.pc \in {"pollWait", "polled", "pollSleep"}
    /\ sup.handle = p /\ p <= Len(procs) /\ procs[p].state = "listening"

\* C12 as claimed: once the spawned compiler listens while the Supervisor
\* polls, the polling ends connected (the status is Connected or the compiler
\* transport is Ready), unless the process terminates or the extension is
\* deactivated first
C12_SpawnEndsConnected ==
    \A p \in 1..MaxRuns :
        PollingUp(p) ~>
            (\/ status = "Connected"
             \/ conn[compiler].state = "Ready"
             \/ sup.closed
             \/ p <= Len(procs) /\ procs[p].state = "exited")

\* the Supervisor waits for an event of a transport that is Closed already
\* while the compiler it spawned listens
SupervisorStuck ==
    /\ sup.pc = "pollWait" /\ conn[sup.t].state = "Closed"
    /\ sup.handle # 0 /\ procs[sup.handle].state = "listening"

\* a process that runs and that nobody asked to kill
Orphan(p) == procs[p].state # "exited" /\ procs[p].kills = 0

\* C13: a process that runs and was not asked to be killed is the one the
\* handle holds, so there is at most one; the handle is empty from the
\* configuration check until the spawn step; the handle is set to a process
\* only by the spawn step, and to the process that step started
C13_OneLiveHandle ==
    /\ [](/\ \A p \in 1..Len(procs) : Orphan(p) => sup.handle = p
          /\ sup.handle \in {0, Len(procs)}
          /\ sup.pc \in {"attachWait", "attached", "secret", "launch"} => sup.handle = 0)
    /\ [][(sup'.handle # sup.handle /\ sup'.handle # 0) =>
              /\ sup.pc = "launch" /\ sup.handle = 0
              /\ Len(procs') = Len(procs) + 1 /\ sup'.handle = Len(procs')]_vars

\* a second subroutine holds the process it spawned while the process of the
\* first, which was asked to be killed, still runs
C13_Witness ==
    /\ Len(procs) = 2 /\ sup.handle = 2 /\ procs[2].state # "exited"
    /\ procs[1].state # "exited" /\ procs[1].kills = 1

\* C14 as claimed: over every interleaving of the failure path, the finally
\* handler and deactivate(), killChildProcess is called at most once for a
\* process
C14_KilledOnce ==
    \A p \in 1..Len(procs) : procs[p].kills <= 1

\* C15 as claimed: a subroutine that found the toolchain path unset or
\* without a toolchain has ended, logged the diagnostic and spawned nothing
C15_NoToolchainNoSpawn ==
    (sup.runs > 0 /\ sup.pc # "killFirst" /\ sup.cfg # "valid") =>
        /\ sup.pc = "done" /\ sup.outcome = "no toolchain"
        /\ sup.spawned = 0 /\ "run reconnect" \in sup.log

\* the step in which the subroutine leaves loopUntilConnectionDrops
LeavesWatch == sup.pc = "watch" /\ sup'.pc = "done"

\* C16 as claimed: a subroutine that adopted a compiler spawns nothing, and
\* leaves its loop only when the adopted connection is Closed
C16_AdoptedUntilClosed ==
    /\ [](sup.adopted => sup.spawned = 0)
    /\ [][(LeavesWatch /\ sup.adopted) => conn[sup.t].state = "Closed"]_vars

\* C16: a subroutine that adopted a compiler spawns nothing; it leaves its
\* loop only in a timer step that finds the adopted connection Closed or the
\* extension deactivated; having left, it has run the teardown once, holds no
\* process, has no timer or listener left, and no step but a new invocation
\* starts it again
C16_AdoptedUntilClosedOrShutdown ==
    /\ [](sup.adopted =>
            /\ sup.spawned = 0 /\ sup.handle = 0
            /\ sup.pc \in {"watch", "done"}
            /\ sup.pc = "done" =>
                  /\ ~sup.running /\ sup.teardowns = 1
                  /\ sup.outcome \in {"dropped", "shutdown"}
                  /\ sup.outcome = "dropped" => conn[sup.t].state = "Closed"
                  /\ \A t \in 1..Len(conn) :
                        ~contains(conn[t].onDidConnect, Listener("resolver", 0))
                        /\ ~contains(conn[t].onDidDisconnect, Listener("resolver", 0)))
    /\ [][(LeavesWatch /\ sup.adopted) =>
              /\ conn[sup.t].state = "Closed" \/ sup.closed
              /\ sup.closed <=> sup'.outcome = "shutdown"
              /\ Len(procs') = Len(procs) /\ Len(conn') = Len(conn)]_vars
    /\ [][(sup.pc = "done" /\ sup'.pc # "done") =>
              (sup'.runs = sup.runs + 1 /\ ~sup.closed)]_vars

\* a subroutine that adopted a foreign compiler ended because the connection
\* dropped, and nothing was spawned
C16_Witness ==
    /\ sup.adopted /\ sup.pc = "done" /\ sup.outcome = "dropped"
    /\ conn[sup.t].state = "Closed" /\ Len(procs) = 0

\* the step that runs the poll loop's code after `await compilerConnector()`
\* while no connection is established
PollFails ==
    /\ micro # <<>> /\ Head(micro) = 0 /\ sup.pc = "polled"
    /\ conn[sup.t].state # "Ready"

\* C17 as claimed: when the child has terminated, with whatever exit code, the
\* poll that follows is the last one and the subroutine reports the failure
C17_ExitStopsPolling ==
    [][(PollFails /\ procs[sup.handle].state = "exited") =>
          /\ sup'.pc = "done" /\ sup'.outcome = "failed"
          /\ "failed to launch" \in sup'.log
          /\ sup'.polls < POLL_LIMIT]_vars

\* the subroutine has ended on a failure path
Failed == sup.pc = "done" /\ sup.outcome \in {"failed", "raised"}

\* the step in which the subroutine ends on a failure path
Fails == sup.pc # "done" /\ sup'.pc = "done" /\ sup'.outcome \in {"failed", "raised"}

C19_NothingEscapes ==
    /\ sup.escaped = 0
    /\ (sup.pc = "done" /\ sup.outcome = "raised") => sup.teardowns = 1

\* invocation k has returned to its caller
Completed(k) == identifies[k].pc = "done"

\* the listeners invocations of identify left on transport t
IdentifyListeners(t) ==
    {i \in DOMAIN conn[t].onDidReceiveData : conn[t].onDidReceiveData[i].k = "identify"}

\* C20 as claimed: an invocation that timed out resolved to null and its
\* listener is gone; an invocation that follows a timeout on the same
\* transport registers a listener and sends the script again; when every
\* invocation has completed no transport holds an identify listener
C20_TimeoutResolvesNull ==
    /\ \A k \in 1..Len(identifies) :
          (Completed(k) /\ identifies[k].result = "null") =>
              /\ identifies[k].ret = "null"
              /\ ~contains(conn[identifies[k].t].onDidReceiveData, Listener("identify", k))
    /\ (\A k \in 1..Len(identifies) : Completed(k)) =>
          \A t \in 1..Len(conn) : IdentifyListeners(t) = {}

\* the step in which transport t fires onDisconnect
Disconnects(t) == conn[t].state # "Closed" /\ conn'[t].state = "Closed"

\* C21 as claimed: the step that handles the disconnect of a transport leaves
\* no entry for it in the identify cache
C21_DisconnectClearsCache ==
    [][\A t \in 1..Len(conn) : Disconnects(t) => t \notin DOMAIN identifyInfo']_vars

\* the instance transports
Games == {t \in Transports : conn[t].slot = "game"}

\* the position of the first event e in the log of t, 0 if there is none
RECURSIVE At(_, _, _)
At(t, e, i) ==
    IF i > Len(conn[t].log) THEN 0
    ELSE IF conn[t].log[i].e = e THEN i
    ELSE At(t, e, i + 1)

\* C22: an instance transport fires connections-changed once in its connect
\* event and once in its disconnect event if it had connected, and never
\* otherwise; one that closes without having connected fires none at all
C22_ChangedIffConnected ==
    \A t \in Games :
        LET changed == Fired(t, "connectionsChanged")
            d == At(t, "disconnect", 1)
        IN  /\ conn[t].state = "Connecting" => changed = 0
            /\ conn[t].state = "Ready" => changed = 1
            /\ conn[t].state = "Closed" =>
                  /\ changed = (IF Fired(t, "connect") = 1 THEN 2 ELSE 0)
                  /\ Fired(t, "connect") = 1 <=>
                        (d < Len(conn[t].log) /\ conn[t].log[d + 1].e = "connectionsChanged")
                  /\ Fired(t, "connect") = 0 => d = Len(conn[t].log)

\* one instance transport closed after it had connected and another closed
\* without ever connecting
C22_Witness ==
    \E t, u \in Games :
        /\ conn[t].state = "Closed" /\ Fired(t, "connect") = 1
        /\ Fired(t, "connectionsChanged") = 2
        /\ conn[u].state = "Closed" /\ Fired(u, "connect") = 0
        /\ Fired(u, "connectionsChanged") = 0

\* C23: an instance transport that connected was sent the continue command
\* exactly once, in its connect event and before the connections-changed of
\* that event; one that has not connected was sent none; the compiler
\* transport is sent none
C23_ContinueBeforeChanged ==
    \A t \in Transports :
        LET c == At(t, "connect", 1)
        IN  /\ Fired(t, "send continue") =
                  (IF conn[t].slot = "game" /\ c # 0 THEN 1 ELSE 0)
            /\ (conn[t].slot = "game" /\ c # 0) =>
                  /\ At(t, "send continue", 1) = c + 1
                  /\ At(t, "connectionsChanged", 1) = c + 2

\* two instance transports of one port connected one after the other, and
\* each was sent its own continue command
C23_Witness ==
    \E t, u \in Games :
        /\ t # u /\ conn[t].port = conn[u].port
        /\ Fired(t, "send continue") = 1 /\ Fired(u, "send continue") = 1

\* the elements of a sequence
Range(seq) == {seq[i] : i \in DOMAIN seq}

\* C24: getAllGames returns, each once, exactly the transports stored in the
\* port map that are Ready when it is called, so none that is Connecting or
\* Closed and never the compiler transport; it changes neither the map nor
\* any transport
C24_AllGamesAreReady ==
    [][last'.op = "getAllGames" =>
          /\ Range(last'.games) = {game[p] : p \in {q \in DOMAIN game : conn[game[q]].state = "Ready"}}
          /\ Len(last'.games) = Cardinality(Range(last'.games))
          /\ \A i \in DOMAIN last'.games :
                /\ conn[last'.games[i]].state = "Ready"
                /\ conn[last'.games[i]].slot = "game"
                /\ last'.games[i] # compiler
          /\ game' = game /\ conn' = conn /\ compiler' = compiler]_vars

\* getAllGames returned one transport while the map held a second one that
\* was not Ready and the compiler transport was Ready
C24_Witness ==
    /\ last.op = "getAllGames" /\ Len(last.games) = 1
    /\ Cardinality(DOMAIN game) = 2
    /\ conn[compiler].state = "Ready"

\* the transports that were attached to sink ch
Attached(ch) ==
    {t \in Transports : contains(conn[t].onDidReceiveData, Listener("output", ch))}

\* the name of the sink transport t is attached under
OutputName(t) ==
    IF conn[t].slot = "game" THEN GameOutputName(conn[t].port) ELSE COMPILER_OUTPUT_NAME

\* C25: no two sinks have the same name; a sink is created by the first
\* transport attached under its name and got one separator block for every
\* further transport attached under it; every transport attached is attached
\* to the sink of its name, and to no other
C25_OneSinkPerName ==
    /\ \A a, b \in DOMAIN outputs.channels :
          outputs.channels[a].name = outputs.channels[b].name => a = b
    /\ \A ch \in DOMAIN outputs.channels :
          /\ Attached(ch) # {}
          /\ outputs.channels[ch].separators = Cardinality(Attached(ch)) - 1
          /\ outputs.outputsByName[outputs.channels[ch].name] = ch
          /\ \A t \in Attached(ch) : OutputName(t) = outputs.channels[ch].name
    /\ \A t \in Transports :
          Cardinality({i \in DOMAIN conn[t].onDidReceiveData :
                          conn[t].onDidReceiveData[i].k = "output"}) <= 1

\* the compiler has its sink, and the sink of an instance port took a second
\* transport after the first had closed and got one separator block
C25_Witness ==
    /\ Len(outputs.channels) = 2
    /\ \E ch \in DOMAIN outputs.channels :
          /\ outputs.channels[ch].name = GameOutputName(GAME_PORT)
          /\ outputs.channels[ch].separators = 1 /\ Cardinality(Attached(ch)) = 2

\* the order of the three states
Rank(state) ==
    CASE state = "Connecting" -> 1
      [] state = "Ready" -> 2
      [] state = "Closed" -> 3

\* C26: a transport is Connecting, Ready or Closed; every step leaves its
\* state as it is or moves it forward, so a Closed transport stays Closed;
\* its history shows a connect exactly if it was ever Ready, so isReady and
\* isClosed are never both true; no transport ceases to exist
C26_StateMonotonic ==
    /\ [](\A t \in Transports :
            /\ conn[t].state \in {"Connecting", "Ready", "Closed"}
            /\ isReady(Heap, t) => ~isClosed(Heap, t)
            /\ conn[t].state = "Connecting" => conn[t].log = <<>>
            /\ conn[t].state = "Ready" => Fired(t, "connect") = 1 /\ Fired(t, "disconnect") = 0)
    /\ [][/\ Len(conn') >= Len(conn)
          /\ \A t \in Transports : Rank(conn'[t].state) >= Rank(conn[t].state)]_vars

\* one transport went from Connecting straight to Closed while another,
\* constructed later for the same port, is Ready
C26_Witness ==
    \E t, u \in Games :
        /\ t < u /\ conn[t].port = conn[u].port
        /\ conn[t].state = "Closed" /\ Fired(t, "connect") = 0
        /\ conn[u].state = "Ready"

\* the step delivers a text frame
Delivers == frame.pending /\ ~frame'.pending

\* C27: the frame delivered last decodes to the same object, or is dropped
\* just the same, with any number of NUL bytes appended to it and with all
\* of its own padding taken away; a step that delivers a frame which does not
\* parse fires no event and changes nothing of the program; a step that
\* delivers one which parses fires one onDidReceiveData on one transport
C27_PaddingInvariant ==
    /\ [](~frame.pending =>
          /\ \A n \in 0..MaxPad :
               /\ decode(frame.bytes \o padding(n)).parsed = frame.parsed
               /\ decode(frame.bytes \o padding(n)).object = frame.object
          /\ decode(strip(frame.bytes)).parsed = frame.parsed
          /\ decode(strip(frame.bytes)).object = frame.object
          /\ frame.parsed => \A i \in DOMAIN frame.object : frame.object[i] # "NUL")
    /\ [][frame.pending => frame'.bytes = frame.bytes]_vars
    /\ [][(Delivers /\ ~frame'.parsed) =>
              UNCHANGED <<conn, compiler, game, status, statusLog, calls, micro,
                          identifyInfo, identifies, outputs>>]_vars
    /\ [][(Delivers /\ frame'.parsed) =>
              \E t \in Transports :
                  /\ conn'[t].received = conn[t].received + 1
                  /\ Fired(t, "data") + 1 =
                        Cardinality({i \in DOMAIN conn'[t].log : conn'[t].log[i].e = "data"})
                  /\ \A u \in Transports \ {t} : conn'[u] = conn[u]]_vars

\* an object with two members arrived with three bytes of padding and was
\* handed to the listeners
C27_Witness ==
    /\ frame.parsed /\ frame.object = <<"m", "m">>
    /\ frame.bytes = <<"{", "m", "m", "}", "NUL", "NUL", "NUL">>
    /\ \E t \in Transports : Fired(t, "data") >= 1

\* how often l is registered in the list
Registrations(ls, l) == Cardinality({i \in DOMAIN ls : ls[i] = l})

\* transport t holds n registrations of each of the two listeners
Holds(t, onConnect, onDisconnect, n) ==
    /\ Registrations(conn[t].onDidConnect, onConnect) = n
    /\ Registrations(conn[t].onDidDisconnect, onDisconnect) = n

Fires(t, ev) ==
    Cardinality({i \in DOMAIN conn'[t].log : conn'[t].log[i].e = ev}) = Fired(t, ev) + 1

\* the listeners of a one-shot pair: each removes itself and its twin
OneShot == {"ctorConnect", "ctorDisconnect", "waitConnect", "waitDisconnect", "resolver"}

\* C29: a connect or disconnect that fires on a transport runs every
\* listener that was in the event's list when the step began, once each and
\* in the order of registration, also behind a listener that removed itself
\* in its run (no listener of this program removes another of the same
\* list); afterwards the list holds what it held less the one-shot listeners
C29_FireRunsEveryListener ==
    [][\A t \in Transports :
          /\ Fires(t, "connect") =>
                /\ conn'[t].invoked = conn[t].onDidConnect
                /\ conn'[t].onDidConnect =
                      SelectSeq(conn[t].onDidConnect, LAMBDA l : l.k \notin OneShot)
          /\ Fires(t, "disconnect") =>
                /\ conn'[t].invoked = conn[t].onDidDisconnect
                /\ SelectSeq(conn'[t].onDidDisconnect, LAMBDA l : l.k \notin OneShot) =
                      SelectSeq(conn[t].onDidDisconnect, LAMBDA l : l.k \notin OneShot)
                /\ \A i \in DOMAIN conn'[t].onDidDisconnect :
                      conn'[t].onDidDisconnect[i].k \notin OneShot]_vars

\* the connect of the compiler transport ran the constructor's listener, which
\* removed itself, and behind it the listeners of two waits
C29_Witness ==
    \E t \in Transports :
        /\ Fired(t, "connect") = 1 /\ Fired(t, "disconnect") = 0
        /\ Len(conn[t].invoked) >= 3
        /\ conn[t].invoked[1] = Listener("ctorConnect", 0)
        /\ conn[t].invoked[2].k \in {"waitConnect", "resolver"}
        /\ conn[t].invoked[3].k \in {"waitConnect", "resolver"}
        /\ conn[t].onDidConnect = <<>>

\* transport t is associated with a sink: by one of the maps, or by a
\* listener _addOutputChannel registered on it
Sunk(t) ==
    \/ t \in DOMAIN outputs.connectionOutputs
    \/ \E ch \in DOMAIN outputs.outputsForConnection : outputs.outputsForConnection[ch] = t
    \/ \E i \in DOMAIN conn[t].onDidReceiveData : conn[t].onDidReceiveData[i].k = "output"
    \/ \E i \in DOMAIN conn[t].onDidDisconnect : conn[t].onDidDisconnect[i].k = "outputDisconnect"

\* the same of the state a step leads to
SunkNext(t) ==
    \/ t \in DOMAIN outputs'.connectionOutputs
    \/ \E ch \in DOMAIN outputs'.outputsForConnection : outputs'.outputsForConnection[ch] = t
    \/ \E i \in DOMAIN conn'[t].onDidReceiveData : conn'[t].onDidReceiveData[i].k = "output"
    \/ \E i \in DOMAIN conn'[t].onDidDisconnect : conn'[t].onDidDisconnect[i].k = "outputDisconnect"

\* C30: a transport associated with a sink has fired connect, and every sink
\* that exists was created for such a transport; a step that constructs a
\* transport creates no sink and associates none; the step that associates
\* an instance transport with a sink is the one in which it fires connect,
\* and the step that associates a compiler transport is one in which a
\* connectToCompiler call returns that transport, Ready before and after
C30_SinkOnlyWhenReady ==
    /\ [](/\ \A t \in Transports : Sunk(t) => Fired(t, "connect") = 1
          /\ \A ch \in DOMAIN outputs.channels :
                \E t \in Attached(ch) : Fired(t, "connect") = 1)
    /\ [][/\ Len(conn') > Len(conn) =>
                /\ outputs' = outputs
                /\ \A t \in (Len(conn) + 1)..Len(conn') : ~SunkNext(t)
          /\ \A t \in Transports :
                (SunkNext(t) /\ ~Sunk(t)) =>
                    IF conn[t].slot = "game"
                    THEN Fires(t, "connect") /\ conn'[t].state = "Ready"
                    ELSE /\ conn[t].state = "Ready" /\ conn'[t].state = "Ready"
                         /\ \E c \in DOMAIN calls' :
                               /\ calls'[c].pc = "done" /\ calls'[c].ret = t
                               /\ c \in DOMAIN calls => calls[c].pc # "done"]_vars

\* the compiler transport has its sink; an instance transport had one until
\* it closed, and the transport constructed for its port since waits for its
\* socket with no sink, though the sink of its name exists
C30_Witness ==
    /\ conn[compiler].state = "Ready" /\ Sunk(compiler)
    /\ \E t, u \in Transports :
          /\ conn[t].slot = "game" /\ conn[t].state = "Closed" /\ Fired(t, "connect") = 1
          /\ conn[u].slot = "game" /\ conn[u].port = conn[t].port
          /\ conn[u].state = "Connecting" /\ ~Sunk(u)
          /\ GameOutputName(conn[u].port) \in DOMAIN outputs.outputsByName
    /\ Len(outputs.channels) = 2

\* a background loop is between two of its steps
Looping == sup.keep \in {"config", "sleep"} \/ sup.pc = "watch"

\* C31: with the shutdown flag set, a timer of keepConnecting or of
\* loopUntilConnectionDrops that expires ends its loop; keepConnecting begins
\* a timer only from the iteration that was waiting for the configuration
\* when the flag was set, and loopUntilConnectionDrops begins none; no loop
\* is started; and every loop does end
C31_LoopsObserveShutdown ==
    /\ [][sup.closed =>
              /\ sup.keep = "sleep" /\ sup'.keep # "sleep" => sup'.keep = "done"
              /\ sup.keep # "sleep" /\ sup'.keep = "sleep" => sup.keep = "config"
              /\ sup.keep \in {"done", "raised", "none"} => sup'.keep = sup.keep
              /\ sup'.keep # "config" \/ sup.keep = "config"
              /\ sup.pc = "watch" /\ sup'.pc # "watch" =>
                    sup'.pc = "done" /\ sup'.outcome = "shutdown"
              /\ sup.pc # "watch" => sup'.pc # "watch"]_vars
    /\ (sup.closed ~> ~Looping)

\* keepConnecting was waiting for the configuration when deactivate() ran,
\* has started its timer since, and the Supervisor watches a compiler it found
C31_Witness ==
    /\ sup.closed /\ sup.keep = "sleep" /\ sup.pc = "watch"

\* C32: with the shutdown flag set, no step constructs a transport
C32_NoTransportAfterShutdown == [][sup.closed => Len(conn') = Len(conn)]_vars

\* C33: the transport a getGame(port, ip) call returned has the port and the
\* ip the call asked for
C33_ReturnedHostIsRequested ==
    last.op = "getGame" =>
        /\ conn[last.ret].port = last.port
        /\ conn[last.ret].ip = last.hosts[1]

\* C34: the disconnect of a Ready compiler transport that one or more
\* connectToCompiler calls found Ready after their loop publishes
\* Disconnected once: one status is added to those published, and it is
\* Disconnected
C34_DisconnectedOnce ==
    [][\A t \in Transports :
          (/\ Fires(t, "disconnect") /\ conn[t].slot = "compiler" /\ conn[t].state = "Ready"
           /\ Registrations(conn[t].onDidDisconnect, Listener("statusDisconnect", 0)) >= 1) =>
              /\ Len(statusLog') = Len(statusLog) + 1
              /\ status' = "Disconnected"]_vars

\* the sinks whose listener is registered on transport t
SinksOf(t) ==
    {conn[t].onDidReceiveData[i].c :
        i \in {j \in DOMAIN conn[t].onDidReceiveData : conn[t].onDidReceiveData[j].k = "output"}}

\* C35: a transport carries at most one data listener and one disconnect
\* listener of _addOutputChannel; a log frame that arrives on a transport
\* with a sink adds one message line to that sink, one callstack line more if
\* it is a Lua error, and nothing to any other sink; any other frame, and any
\* frame on a transport without a sink, adds nothing
C35_OneListenerPerTransport ==
    /\ [](\A t \in Transports :
            /\ Cardinality({i \in DOMAIN conn[t].onDidReceiveData :
                               conn[t].onDidReceiveData[i].k = "output"}) <= 1
            /\ Cardinality({i \in DOMAIN conn[t].onDidDisconnect :
                               conn[t].onDidDisconnect[i].k = "outputDisconnect"}) <= 1)
    /\ [][\A t \in Transports :
            conn'[t].received = conn[t].received + 1 =>
                \A ch \in DOMAIN outputs.channels :
                    LET logged == ch \in SinksOf(t) /\ last'.op \in {"message", "lua_error"}
                    IN  /\ outputs'.channels[ch].lines =
                              outputs.channels[ch].lines + IF logged THEN 1 ELSE 0
                        /\ outputs'.channels[ch].callstacks =
                              outputs.channels[ch].callstacks
                                  + IF logged /\ last'.op = "lua_error" THEN 1 ELSE 0]_vars

\* two connectToCompiler calls have returned the same Ready compiler
\* transport, an instance transport took over the sink of a closed one, and
\* a message has been written to each sink
C35_Witness ==
    /\ Len(calls) = 2 /\ \A c \in DOMAIN calls : calls[c].pc = "done" /\ calls[c].ret = compiler
    /\ conn[compiler].state = "Ready" /\ SinksOf(compiler) # {}
    /\ \E t \in Transports :
          /\ conn[t].slot = "game" /\ conn[t].state = "Ready"
          /\ \E ch \in SinksOf(t) : outputs.channels[ch].separators = 1
    /\ \A ch \in DOMAIN outputs.channels : outputs.channels[ch].lines >= 1

\* C36: an invocation of identify whose answer arrived before the timeout
\* resolved to the info of that answer; an invocation that found the info in
\* the cache resolved to it, armed no timer and left no listener
C36_IdentifyResolvesInfo ==
    \A k \in 1..Len(identifies) :
        /\ (Completed(k) /\ identifies[k].result = "info") => identifies[k].ret = "info"
        /\ (Completed(k) /\ identifies[k].result = "none") =>
              /\ identifies[k].ret = "info" /\ identifies[k].timer = "none"
              /\ ~contains(conn[identifies[k].t].onDidReceiveData, Listener("identify", k))

\* C37: the identify cache holds no entry for a transport that is Closed
C37_NoCacheForClosed ==
    \A t \in DOMAIN identifyInfo : conn[t].state # "Closed"

\* C38: calls that are waiting wait on one transport, the current compiler
\* transport; a step constructs at most one transport, and only when the
\* current compiler transport is Closed, so that no two transports that are
\* not Closed exist; the step in which the last pending call returns leaves
\* the status Connected if the compiler transport is Ready and Disconnected
\* if not, and so it stays while no call is pending; and every call returns
C38_OverlappingCalls ==
    /\ [](/\ \A c \in DOMAIN calls : calls[c].pc = "wait" => calls[c].t = compiler
          /\ \A t, u \in Transports :
                (conn[t].state # "Closed" /\ conn[u].state # "Closed") => t = u
          /\ (Len(calls) >= 1 /\ \A c \in DOMAIN calls : calls[c].pc = "done") =>
                status = IF conn[compiler].state = "Ready" THEN "Connected"
                         ELSE "Disconnected")
    /\ [][Len(conn') > Len(conn) =>
              /\ Len(conn') = Len(conn) + 1
              /\ conn[compiler].state = "Closed" /\ compiler' = Len(conn')]_vars
    /\ [][((\E c \in DOMAIN calls' : c \notin DOMAIN calls \/ calls[c].pc # "done")
            /\ \A c \in DOMAIN calls' : calls'[c].pc = "done") =>
              status' = IF conn'[compiler'].state = "Ready" THEN "Connected"
                        ELSE "Disconnected"]_vars
    /\ \A c \in 1..MaxTasks :
          (Len(calls) >= c) ~> (Len(calls) >= c /\ calls[c].pc = "done")

\* the second call began while the first slept and constructed a transport;
\* the first woke before its socket settled, so that both waited on it; both
\* have returned it, Ready
C38_Witness ==
    /\ Len(calls) >= 2
    /\ calls[1].pc = "done" /\ calls[2].pc = "done"
    /\ calls[1].sleeps = 1 /\ calls[1].waits = 2 /\ calls[2].waits = 1
    /\ calls[2].from = calls[1].from + 2
    /\ Len(statusLog) = calls[2].from + 4
    /\ statusLog[calls[2].from + 1] = "Connecting"
    /\ statusLog[calls[2].from + 2] = "Connecting"
    /\ calls[1].ret = calls[2].ret /\ calls[1].ret = compiler /\ compiler = 2
    /\ conn[compiler].state = "Ready" /\ status = "Connected"

\* C39: the flag is set exactly while a subroutine is in progress; a
\* subroutine starts only in a step that finds the flag clear and no
\* subroutine in progress; the command run while the flag is set changes
\* nothing of the Supervisor, the processes, the transports and the queue;
\* the flag is clear after each way a subroutine ends; and the command run
\* after a subroutine ended starts the next one
C39_OneSupervisor ==
    /\ [](/\ sup.running <=> sup.pc \notin {"none", "done"}
          /\ sup.pc = "done" =>
                (sup.outcome # "none" /\ sup.teardowns = 1 /\ ~sup.running))
    /\ [][sup.runs' # sup.runs =>
              /\ ~sup.running /\ sup.pc \in {"none", "done"}
              /\ sup.runs' = sup.runs + 1]_vars
    /\ [][(Reconnect /\ sup.running) =>
              (sup' = sup /\ procs' = procs /\ conn' = conn /\ micro' = micro
               /\ calls' = calls /\ status' = status)]_vars
    /\ [][(Reconnect /\ sup.pc = "done") =>
              (sup'.runs = sup.runs + 1 /\ (sup'.running \/ sup'.pc = "done"))]_vars

\* the first subroutine ended with a raised error; the command run after it
\* was accepted, and the second subroutine is in progress
C39_Witness ==
    /\ sup.runs = 2 /\ sup.running /\ sup.escaped = 1
    /\ last.op = "reconnect" /\ sup.pc \notin {"none", "done"}

\* the cached toolchain was made from the path the setting holds now
Hit == tool.activeToolchain.kind = "object" /\ tool.toolchainPath = tool.setting

\* C40: a call returns null or a toolchain whose path is the setting read by
\* the call; it returns the cached toolchain without constructing one exactly
\* when that was made from the same path; a cached toolchain of another path
\* is discarded and, unless the path is unset, the constructor runs; an unset
\* path (undefined, null, empty) returns null without a construction, a
\* constructor that throws returns null and leaves nothing cached; and the
\* call after one whose constructor threw, the path still the same, runs the
\* constructor again
C40_ActiveToolchainOfPath ==
    /\ [](/\ tool.ret.kind = "object" => tool.ret = StingrayToolchain(tool.toolchainPath)
          /\ tool.activeToolchain.kind = "object" =>
                (tool.activeToolchain = StingrayToolchain(tool.toolchainPath)
                 /\ ~falsy(tool.toolchainPath))
          /\ tool.threw => (tool.constructed /\ tool.activeToolchain = Null))
    /\ [][GetActiveToolchain =>
              /\ tool'.ret = Null \/ tool'.ret = StingrayToolchain(tool.setting)
              /\ tool'.toolchainPath = tool.setting
              /\ Hit => (/\ tool'.ret = tool.activeToolchain /\ ~tool'.constructed
                         /\ tool'.activeToolchain = tool.activeToolchain)
              /\ (tool'.ret.kind = "object" /\ ~tool'.constructed) => Hit
              /\ (tool.activeToolchain.kind = "object" /\ ~Hit) =>
                    (/\ tool'.discarded = tool.activeToolchain
                     /\ tool'.activeToolchain # tool.activeToolchain
                     /\ ~falsy(tool.setting) => tool'.constructed)
              /\ falsy(tool.setting) => (tool'.ret = Null /\ ~tool'.constructed)
              /\ tool'.threw => (tool'.ret = Null /\ tool'.activeToolchain = Null)
              /\ (tool'.constructed /\ ~tool'.threw) =>
                    (/\ tool'.ret = StingrayToolchain(tool.setting)
                     /\ tool'.activeToolchain = tool'.ret)
              /\ (tool.threw /\ tool.toolchainPath = tool.setting) => tool'.constructed]_vars

\* the setting changed from A to B: the call dropped the toolchain of A and
\* returned one constructed from B
C40_Witness ==
    /\ tool.ret = StingrayToolchain("B") /\ tool.constructed
    /\ tool.discarded = StingrayToolchain("A")
    /\ tool.setting = "B" /\ tool.activeToolchain = tool.ret

====
